---- MODULE Spec2Model ----
(***************************************************************************)
(* Spinneret (src/src/server.js): the route trie (#setRoute / #getRoute),  *)
(* the middleware pipeline (#midPush / #midCall) as driven by the request  *)
(* listener, and the WebSocket frame codec (#encodeWsMessage /             *)
(* #decodeWsMessage).                                                      *)
(*                                                                         *)
(* The specifications of the module:                                       *)
(*   SpecRouter  api() registrations followed by #getRoute look-ups        *)
(*   Spec        setup (api, midApiSync, midApiAsync), then one request    *)
(*               through the listener, #midCall and the route handler      *)
(*   SpecWs      socket.encode, the peer's masking, the 'data' handler     *)
(*   SpecSocket  the upgrade of a connection and the events of its socket  *)
(*   SpecSend    socket.send on open sockets                               *)
(*   SpecSetup   files() calls                                             *)
(*   SpecFiles   a server that serves files and has an API: one request    *)
(*   SpecCache   file serving with the cache: two requests at a time, the  *)
(*               cache calls and a file system that changes                *)
(*   SpecSoups   the documented soups example with built-in middleware     *)
(*   SpecBody    the built-in body middleware on a streamed body           *)
(***************************************************************************)
EXTENDS Integers, Sequences, FiniteSets, TLC

VARIABLES
    urlVar,         \* this.#urlVar: TRUE = the default pattern /^{(.+?)}$/, FALSE = null
    routes,         \* this.#routes: node (sequence of keys from the root) -> [var, handlers]
    methods,        \* this.#methods
    hist,           \* ghost: the api() calls made so far, in order
    rreq,           \* router look-up: the request handed to #getRoute (or NoReq)
    rres,           \* router look-up: what #getRoute returned and left in req.vars
    listening,      \* listen() was called: setup is over
    middlewareApi,  \* this.#middlewareApi: sequence of groups [sync, n]
    lpc,            \* position of the listener for the request
    req,            \* the request of the listener: [method, url]
    finished,       \* res.finished
    statusCode,     \* res.statusCode (0 = not set by the server)
    mpc,            \* position of #midCall: [st, g, i]
    fst,            \* per middleware function <<g, i>>: "idle", "pending", "done", "failed"
    calls,          \* ghost: per middleware function, the number of invocations
    handler,        \* the handler #getRoute returned to the listener
    handlerCalls,   \* ghost: number of invocations of the route handler
    nSusp,          \* ghost: number of middleware calls that returned a pending promise
    finalizedBy,    \* ghost: who called res.end() first: a middleware function <<g, i>>,
                    \* Nobody, TheHandler or TheListener
    wsData,         \* the Buffer handed to socket.encode
    wsMask,         \* the 4 mask bytes the peer uses
    wsFrame,        \* what socket.encode returned (a Buffer, or RangeError)
    wsWire,         \* the chunk the peer sends: the frame, masked
    socket,         \* [error, hadError, message]: the transient fields of the socket
    wsPc,           \* position of the WebSocket exchange / the handler that ran last
    wsOn,           \* the events ws(event, fn) gave a callback to (#wsOnClose, ...)
    onlyWss,        \* options.onlyWss of listen()
    conn,           \* the socket of the upgrade request: [st, encrypted, wrote101,
                    \* attached, on] with on the events #upgradeToWs listens to
    wsLog,          \* ghost: the 101 response and the callbacks dispatched, in order,
                    \* each with the transient fields the callback saw
    wsOut,          \* ghost: per open socket, the socket.send calls that wrote, in order:
                    \* [x, encoded, bytes] with bytes what this.write was given
    prefix,         \* this.#prefix: TRUE = the default pattern /^\/api\//, FALSE = null
    types,          \* this.#types
    options,        \* the options of listen(): [types, maxBodySize, onlyHttps]
    dir,            \* this.#dir (NoPath = undefined / null)
    index,          \* this.#index (NoPath = null)
    indexAbsolute,  \* this.#indexAbsolute
    notFound,       \* this.#notFound (NoPath = null)
    cacheEnabled,   \* this.#cacheEnabled
    cache,          \* this.#cache: file -> content
    middlewareFile, \* this.#middlewareFile: sequence of groups [sync, n]
    disk,           \* the file system: file -> content (files that can be read)
    rq,             \* per request in flight: the request, its response and the position
                    \* of the listener for it
    filesCall,      \* ghost: the last files() call: [n, dir, threw]
    served,         \* ghost: file -> the content the cache held for it when it was first
                    \* served with the cache enabled, since the cache was last cleared,
                    \* refreshed or disabled
    cacheCall,      \* ghost: the cache call made last ("none", "clear", "disable",
                    \* "enable" or "refresh") and the cache as that call found it
    midNames,       \* per group of this.#middlewareApi that holds built-in functions:
                    \* their names, in order
    soups,          \* the array `soups` of the documented example
    sq,             \* per request of the example in flight: the request, its response
                    \* and the position of the listener for it
    bq              \* a request with a streamed body: the request, the state of the
                    \* built-in body middleware and the position of the listener

routerVars == <<urlVar, routes, methods, hist, rreq, rres>>
httpVars   == <<listening, middlewareApi, lpc, req, finished, statusCode, mpc, fst,
                calls, handler, handlerCalls, nSusp, finalizedBy>>
wsVars     == <<wsData, wsMask, wsFrame, wsWire, socket, wsPc, wsOn, onlyWss, conn, wsLog>>
sendVars   == <<wsOut>>
fileVars   == <<prefix, types, options, dir, index, indexAbsolute, notFound, cacheEnabled,
                cache, middlewareFile, disk, rq, filesCall, served, cacheCall>>
soupVars   == <<midNames, soups, sq, bq>>
vars       == <<routerVars, httpVars, wsVars, sendVars, fileVars, soupVars>>

(***************************************************************************)
(* Bounds                                                                  *)
(***************************************************************************)
MaxRoutes == 2      \* api() calls in SpecRouter
MaxSuspend == 2     \* middleware functions of one request that return a pending promise
MaxGroups == 2      \* midApiSync / midApiAsync calls
MaxFns == 4         \* middleware functions registered in all
MaxSeed == 2        \* payload contents tried per payload length
MaxEvents == 5      \* entries of wsLog: the 101 response and the callbacks of a socket
MaxSends == 1       \* socket.send calls that write, per socket
MaxFilesCalls == 2  \* files() calls
MaxSoups == 2       \* soups a POST may add to

(***************************************************************************)
(* Strings are sequences of one-character strings, so that split('/') and  *)
(* the delimiter pattern are computed, not assumed.                        *)
(***************************************************************************)
NoVar     == <<>>       \* map.var is undefined
NoHandler == 0          \* map[method] is undefined / #getRoute returned null
NoReq     == [valid |-> FALSE, method |-> "", url |-> <<>>]
NoRes     == [handler |-> NoHandler, found |-> FALSE, node |-> <<>>, vars |-> <<>>]

Methods == {"GET", "POST"}

\* url.split('/'): every part, empty ones included
RECURSIVE SplitFrom(_, _, _)
SplitFrom(url, i, cur) ==
    IF i > Len(url) THEN <<cur>>
    ELSE IF url[i] = "/" THEN <<cur>> \o SplitFrom(url, i + 1, <<>>)
    ELSE SplitFrom(url, i + 1, Append(cur, url[i]))

JsSplit(url) == SplitFrom(url, 1, <<>>)

\* the parts the loops of #setRoute / #getRoute do not skip (if (!urlPart) continue)
UrlParts(url) == SelectSeq(JsSplit(url), LAMBDA p : p # <<>>)

\* urlPart.match(/^{(.+?)}$/): [ok, name = match[1]]
MatchVar(part) ==
    IF Len(part) >= 3 /\ part[1] = "{" /\ part[Len(part)] = "}"
    THEN [ok |-> TRUE, name |-> SubSeq(part, 2, Len(part) - 1)]
    ELSE [ok |-> FALSE, name |-> <<>>]

\* new Map() / {}: no var, no handler
NewNode == [var |-> NoVar, handlers |-> [m \in Methods |-> NoHandler]]

Root == <<>>

\* the loop of #setRoute over the parts: [routes, node] after parts i..
RECURSIVE SetWalk(_, _, _, _)
SetWalk(r, node, parts, i) ==
    IF i > Len(parts) THEN [routes |-> r, node |-> node]
    ELSE IF parts[i] = <<>> THEN SetWalk(r, node, parts, i + 1)
    ELSE LET m     == MatchVar(parts[i])
             r1    == IF m.ok THEN [r EXCEPT ![node].var = m.name] ELSE r
             key   == IF m.ok THEN m.name ELSE parts[i]
             child == Append(node, key)
             r2    == IF child \in DOMAIN r1 THEN r1 ELSE (child :> NewNode) @@ r1
         IN  SetWalk(r2, child, parts, i + 1)

\* #setRoute(method, url, fn): [routes, node] where node is the map that got the handler
SetRoute(r, uv, method, url, fn) ==
    LET w == IF ~uv
             THEN LET child == <<url>>
                  IN  [routes |-> IF child \in DOMAIN r THEN r ELSE (child :> NewNode) @@ r,
                       node   |-> child]
             ELSE SetWalk(r, Root, JsSplit(url), 1)
    IN  [routes |-> [w.routes EXCEPT ![w.node].handlers[method] = fn],
         node   |-> w.node]

\* the loop of #getRoute over the parts i..: found = FALSE is the return null, node the
\* map reached (the last one reached when found = FALSE), vars what req.vars holds
RECURSIVE GetWalk(_, _, _, _, _)
GetWalk(r, node, parts, i, vs) ==
    IF i > Len(parts) THEN [found |-> TRUE, node |-> node, vars |-> vs]
    ELSE IF parts[i] = <<>> THEN GetWalk(r, node, parts, i + 1, vs)
    ELSE LET varKey == r[node].var
             vs1    == IF varKey # NoVar THEN (varKey :> parts[i]) @@ vs ELSE vs
             key    == IF varKey # NoVar THEN varKey ELSE parts[i]
             child  == Append(node, key)
         IN  IF child \notin DOMAIN r
             THEN [found |-> FALSE, node |-> node, vars |-> vs1]
             ELSE GetWalk(r, child, parts, i + 1, vs1)

\* a fault of #getRoute: a map without a handler for the request's method answers with
\* the handler of another method
GetRouteAnyMethod(r, uv, method, url) ==
    LET w == IF ~uv
             THEN IF <<url>> \in DOMAIN r
                  THEN [found |-> TRUE, node |-> <<url>>, vars |-> <<>>]
                  ELSE [found |-> FALSE, node |-> Root, vars |-> <<>>]
             ELSE GetWalk(r, Root, JsSplit(url), 1, <<>>)
        others == { m \in Methods : w.found /\ r[w.node].handlers[m] # NoHandler }
    IN  [handler |-> IF ~w.found THEN NoHandler
                     ELSE IF r[w.node].handlers[method] # NoHandler \/ others = {}
                          THEN r[w.node].handlers[method]
                          ELSE r[w.node].handlers[CHOOSE m \in others : TRUE],
         found   |-> w.found,
         node    |-> w.node,
         vars    |-> w.vars]

\* #getRoute(req): handler = NoHandler is null / undefined, which the listener answers
\* with 404; vars is req.vars afterwards
GetRoute(r, uv, method, url) ==
    LET w == IF ~uv
             THEN IF <<url>> \in DOMAIN r
                  THEN [found |-> TRUE, node |-> <<url>>, vars |-> <<>>]
                  ELSE [found |-> FALSE, node |-> Root, vars |-> <<>>]
             ELSE GetWalk(r, Root, JsSplit(url), 1, <<>>)
    IN  [handler |-> IF w.found THEN r[w.node].handlers[method] ELSE NoHandler,
         found   |-> w.found,
         node    |-> w.node,
         vars    |-> w.vars]

(***************************************************************************)
(* Router inputs                                                           *)
(***************************************************************************)
sA == <<"a">>
sB == <<"b">>
sX == <<"x">>
s5 == <<"5">>
vX == <<"{", "x", "}">>
vY == <<"{", "y", "}">>

RECURSIVE Path(_)
Path(parts) == IF parts = <<>> THEN <<>> ELSE <<"/">> \o Head(parts) \o Path(Tail(parts))

RegUrls == { <<"/">>, Path(<<sA>>), Path(<<sA, sB>>), Path(<<sA, sX>>),
             Path(<<sA, vX>>), Path(<<sA, vY>>), Path(<<vX, vY>>),
             Path(<<sA>>) \o <<"/">> }

ReqUrls == { <<"/">>, Path(<<sA>>), Path(<<sB>>), Path(<<sA, sB>>), Path(<<sA, s5>>),
             Path(<<sA, sX>>), Path(<<s5, sB>>), Path(<<sA, s5, sB>>),
             <<"/">> \o Path(<<sA>>) }

HttpRegUrls == { Path(<<sA, vX>>) }
HttpReqUrls == { Path(<<sA, s5>>), Path(<<sB>>) }

\* the function handed to the k-th api() call
HandlerOf(k) == k

(***************************************************************************)
(* api(method, url, fn)                                                    *)
(***************************************************************************)
Api(method, url) ==
    LET fn == HandlerOf(Len(hist) + 1)
        s  == SetRoute(routes, urlVar, method, url, fn)
    IN  /\ ~listening
        /\ routes' = s.routes
        /\ methods' = methods \cup {method}
        /\ hist' = Append(hist, [method |-> method, url |-> url, fn |-> fn, node |-> s.node])
        /\ UNCHANGED <<urlVar, rreq, rres>>

\* a look-up as the listener makes it: this.#getRoute(req)
Resolve(method, url) ==
    /\ rreq' = [valid |-> TRUE, method |-> method, url |-> url]
    /\ rres' = GetRoute(routes, urlVar, method, url)
    /\ UNCHANGED <<urlVar, routes, methods, hist>>

(***************************************************************************)
(* Middleware setup: midApiSync(...functions) / midApiAsync(...functions). *)
(* The functions are the developer's; a group records how many there are.  *)
(***************************************************************************)
\* #midPush(array, sync, functions) with n = functions.length
MidPush(array, sync, n) ==
    IF n = 0 THEN array ELSE Append(array, [sync |-> sync, n |-> n])

MidApiAsync(n) ==
    /\ ~listening
    /\ middlewareApi' = MidPush(middlewareApi, FALSE, n)
    /\ UNCHANGED <<listening, lpc, req, finished, statusCode, mpc, fst, calls, handler,
                   handlerCalls, nSusp, finalizedBy>>

MidApiSync(n) ==
    /\ ~listening
    /\ middlewareApi' = MidPush(middlewareApi, TRUE, n)
    /\ UNCHANGED <<listening, lpc, req, finished, statusCode, mpc, fst, calls, handler,
                   handlerCalls, nSusp, finalizedBy>>

\* listen(): the server starts to hand requests to the listener
Listen ==
    /\ ~listening
    /\ listening' = TRUE
    /\ UNCHANGED <<middlewareApi, lpc, req, finished, statusCode, mpc, fst, calls, handler,
                   handlerCalls, nSusp, finalizedBy>>

(***************************************************************************)
(* One request.  JavaScript runs a stretch of code to its next await       *)
(* without interleaving: while #midCall is inside such a stretch           *)
(* (mpc.st = "run") no suspended function resumes and no continuation      *)
(* runs.                                                                   *)
(***************************************************************************)
Nobody      == <<0, 0>>
TheHandler  == <<0, 1>>
TheListener == <<0, 2>>

FnIds(array) == { <<g, i>> : g \in 1..Len(array), i \in 1..MaxFns + 1 } \cap
                { f \in (1..Len(array)) \X (1..MaxFns + 1) : f[2] <= array[f[1]].n }

\* the number of functions in the groups of the array
NumFns(array) == Cardinality(FnIds(array))

StackIdle == mpc.st # "run"

\* res.end() by `who`: res.finished becomes true; the first caller is remembered
EndBy(who, fin) ==
    /\ finished' = (finished \/ fin)
    /\ finalizedBy' = IF fin /\ finalizedBy = Nobody THEN who ELSE finalizedBy

\* handler(req, res) (line 886): the call is not awaited; the handler may end the
\* response before it returns
CallHandler(fin) ==
    /\ handlerCalls' = handlerCalls + 1
    /\ EndBy(TheHandler, fin)

\* #handleNotFoundApi
HandleNotFoundApi ==
    /\ statusCode' = 404
    /\ EndBy(TheListener, TRUE)

\* req.url without ?parameters (lines 829-833)
RECURSIVE CutAtQuery(_, _)
CutAtQuery(url, i) ==
    IF i > Len(url) THEN url
    ELSE IF url[i] = "?" THEN SubSeq(url, 1, i - 1)
    ELSE CutAtQuery(url, i + 1)

\* req.url without one trailing slash (lines 836-837)
StripSlash(url) ==
    IF Len(url) > 1 /\ url[Len(url)] = "/" THEN SubSeq(url, 1, Len(url) - 1) ELSE url

\* The listener up to its first await, for a request without Content-Type on a server
\* that serves no files and has the default listen() options (the checks of lines
\* 814-826 and the branch of line 840 are not taken).
Listener(method, rawUrl) ==
    LET url == StripSlash(CutAtQuery(rawUrl, 1))
        r   == GetRoute(routes, urlVar, method, url)
    IN  /\ listening
        /\ lpc = "idle"
        /\ req' = [valid |-> TRUE, method |-> method, url |-> url]
        /\ fst' = [f \in FnIds(middlewareApi) |-> "idle"]
        /\ calls' = [f \in FnIds(middlewareApi) |-> 0]
        /\ IF method \notin methods \/ r.handler = NoHandler
           THEN /\ HandleNotFoundApi
                /\ lpc' = "done"
                /\ UNCHANGED <<mpc, handler, handlerCalls>>
           ELSE /\ handler' = r.handler
                /\ statusCode' = statusCode
                /\ IF Len(middlewareApi) > 0
                   THEN /\ mpc' = [st |-> "run", g |-> 1, i |-> 0]
                        /\ lpc' = "awaitMid"
                        /\ UNCHANGED <<finished, finalizedBy, handlerCalls>>
                   ELSE /\ lpc' = "done"
                        /\ UNCHANGED mpc
                        /\ \E fin \in BOOLEAN : CallHandler(fin)
        /\ UNCHANGED <<listening, middlewareApi, nSusp>>

\* a fault of #midCall: the head of the loop without the check of res.finished
MidGroupHeadNoCheck ==
    /\ mpc.st = "run"
    /\ mpc.i = 0
    /\ mpc' = IF mpc.g > Len(middlewareApi)
              THEN [mpc EXCEPT !.st = "returned"]
              ELSE [mpc EXCEPT !.i = 1]
    /\ UNCHANGED <<listening, middlewareApi, lpc, req, finished, statusCode, fst, calls,
                   handler, handlerCalls, nSusp, finalizedBy>>

\* #midCall at the head of its for loop over the groups (lines 286-289)
MidGroupHead ==
    /\ mpc.st = "run"
    /\ mpc.i = 0
    /\ mpc' = IF mpc.g > Len(middlewareApi) \/ finished
              THEN [mpc EXCEPT !.st = "returned"]
              ELSE [mpc EXCEPT !.i = 1]
    /\ UNCHANGED <<listening, middlewareApi, lpc, req, finished, statusCode, fst, calls,
                   handler, handlerCalls, nSusp, finalizedBy>>

\* a fault of #midCall: a group is left after its first function
AfterCallFirstOnly(g, i, fin) ==
    IF middlewareApi[g].sync
    THEN [st |-> "run", g |-> g + 1, i |-> 0]
    ELSE [st |-> "await", g |-> g, i |-> 0]

\* where #midCall goes after function i of group g was called and returned
AfterCall(g, i, fin) ==
    IF middlewareApi[g].sync
    THEN IF fin \/ i = middlewareApi[g].n
         THEN [st |-> "run", g |-> g + 1, i |-> 0]
         ELSE [st |-> "run", g |-> g, i |-> i + 1]
    ELSE IF i = middlewareApi[g].n
         THEN [st |-> "await", g |-> g, i |-> 0]
         ELSE [st |-> "run", g |-> g, i |-> i + 1]

\* #midCall calls function i of group g: mid(req, res) (lines 296 and 303).  The
\* function may end the response (fin) and then returns, returns a pending promise or
\* throws.
MidInvoke ==
    /\ mpc.st = "run"
    /\ mpc.i >= 1
    /\ LET f == <<mpc.g, mpc.i>>
       IN  \E fin \in BOOLEAN, out \in {"return", "suspend", "throw"} :
             /\ out = "suspend" => nSusp < MaxSuspend
             /\ nSusp' = IF out = "suspend" THEN nSusp + 1 ELSE nSusp
             /\ calls' = [calls EXCEPT ![f] = @ + 1]
             /\ fst' = [fst EXCEPT ![f] = CASE out = "return"  -> "done"
                                            [] out = "suspend" -> "pending"
                                            [] out = "throw"   -> "failed"]
             /\ EndBy(f, fin)
             /\ mpc' = IF out = "throw"
                       THEN [mpc EXCEPT !.st = "threw"]
                       ELSE AfterCall(mpc.g, mpc.i, finished \/ fin)
    /\ UNCHANGED <<listening, middlewareApi, lpc, req, statusCode, handler, handlerCalls>>

\* a suspended middleware function runs on: it may end the response, and its promise
\* is fulfilled or rejected.  Only Promise.all looks at the outcome: the promise a
\* function of a sync group returned was dropped (line 303), so it is just "done".
MidResume(f) ==
    /\ StackIdle
    /\ fst[f] = "pending"
    /\ \E fin \in BOOLEAN, out \in {"done", "failed"} :
         /\ middlewareApi[f[1]].sync => out = "done"
         /\ fst' = [fst EXCEPT ![f] = out]
         /\ EndBy(f, fin)
    /\ UNCHANGED <<listening, middlewareApi, lpc, req, statusCode, mpc, calls, handler,
                   handlerCalls, nSusp>>

\* a fault of #midCall: Promise.race in the place of Promise.all
MidJoinAny ==
    /\ mpc.st = "await"
    /\ LET fns == { f \in DOMAIN fst : f[1] = mpc.g }
       IN  \/ /\ \E f \in fns : fst[f] = "failed"
              /\ mpc' = [mpc EXCEPT !.st = "threw"]
           \/ /\ \E f \in fns : fst[f] = "done"
              /\ mpc' = [st |-> "run", g |-> mpc.g + 1, i |-> 0]
    /\ UNCHANGED <<listening, middlewareApi, lpc, req, finished, statusCode, fst, calls,
                   handler, handlerCalls, nSusp, finalizedBy>>

\* await Promise.all(promises) settles (line 297): rejected once a promise of the group
\* is rejected, fulfilled once all are fulfilled
MidJoin ==
    /\ mpc.st = "await"
    /\ LET fns == { f \in DOMAIN fst : f[1] = mpc.g }
       IN  \/ /\ \E f \in fns : fst[f] = "failed"
              /\ mpc' = [mpc EXCEPT !.st = "threw"]
           \/ /\ \A f \in fns : fst[f] = "done"
              /\ mpc' = [st |-> "run", g |-> mpc.g + 1, i |-> 0]
    /\ UNCHANGED <<listening, middlewareApi, lpc, req, finished, statusCode, fst, calls,
                   handler, handlerCalls, nSusp, finalizedBy>>

\* the listener after await this.#midCall(...) (lines 882-886)
ListenerResume ==
    /\ lpc = "awaitMid"
    /\ \/ /\ mpc.st = "returned"
          /\ lpc' = "done"
          /\ IF ~finished
             THEN \E fin \in BOOLEAN : CallHandler(fin)
             ELSE UNCHANGED <<finished, finalizedBy, handlerCalls>>
       \/ /\ mpc.st = "threw"
          /\ lpc' = "threw"
          /\ UNCHANGED <<finished, finalizedBy, handlerCalls>>
    /\ UNCHANGED <<listening, middlewareApi, req, statusCode, mpc, fst, calls, handler,
                   nSusp>>

(***************************************************************************)
(* WebSocket frames.  A Buffer is a sequence of bytes (0..255); offset k   *)
(* of the code is element k + 1 here.  TLC's integers are 32 bits wide, so *)
(* the 32-bit masking key is kept as its two 16-bit halves.                *)
(***************************************************************************)
RECURSIVE XorBits(_, _, _)
XorBits(a, b, n) ==
    IF n = 0 THEN 0
    ELSE (((a % 2) + (b % 2)) % 2) + 2 * XorBits(a \div 2, b \div 2, n - 1)

\* a ^ b for two bytes
BitXor(a, b) == XorBits(a, b, 8)

\* the function f over 1..n, as the sequence <<f[1], ..., f[n]>>
AsSeq(f) == f \o <<>>

\* Buffer.allocUnsafe(n): n bytes of whatever the memory held (junk)
AllocUnsafe(n, junk) == [i \in 1..n |-> junk]

ReplacementChar == 65533    \* U+FFFD

\* buffer.toString(): UTF-8 decoding to code points.  The buffers of this model hold
\* ASCII bytes and bytes that start no valid UTF-8 sequence; each of the latter
\* decodes to U+FFFD.
BufferToString(buf) ==
    AsSeq([i \in 1..Len(buf) |-> IF buf[i] < 128 THEN buf[i] ELSE ReplacementChar])

IsAscii(text) == \A i \in 1..Len(text) : text[i] < 128

\* the UTF-8 bytes of a text of ASCII characters and U+FFFD (EF BF BD)
Utf8Bytes(text) ==
    IF IsAscii(text) THEN text
    ELSE LET wide(i) == text[i] >= 128
             start(i) == i + 2 * Cardinality({j \in 1..(i - 1) : wide(j)})
             total == Len(text) + 2 * Cardinality({j \in 1..Len(text) : wide(j)})
         IN  AsSeq([k \in 1..total |->
                 LET i == CHOOSE c \in 1..Len(text) :
                              start(c) <= k /\ k <= start(c) + (IF wide(c) THEN 2 ELSE 0)
                 IN  IF ~wide(i) THEN text[i]
                     ELSE CASE k - start(i) = 0 -> 239
                            [] k - start(i) = 1 -> 191
                            [] k - start(i) = 2 -> 189])

\* #encodeWsMessage(data) for a Buffer, with `limit` the length from which the 16-bit
\* length field is used: [threw, buffer].  The buffer comes from Buffer.allocUnsafe;
\* lines 711-722 write every byte of it (2 header bytes, the 2 bytes of the length
\* when there are any, then byteLength bytes of text), so none keeps what the memory
\* held.  writeUInt16BE throws a RangeError for a value above 65535.
EncodeWith(data, limit) ==
    LET bytes      == Utf8Bytes(BufferToString(data))
        byteLength == Len(bytes)
        payloadLengthByteLength == IF byteLength < limit THEN 0 ELSE 2
        payloadLength == IF payloadLengthByteLength = 0 THEN byteLength ELSE 126
        lengthField == IF payloadLengthByteLength > 0
                       THEN <<byteLength \div 256, byteLength % 256>>
                       ELSE <<>>
    IN  IF payloadLengthByteLength > 0 /\ byteLength > 65535
        THEN [threw |-> TRUE, buffer |-> <<>>]
        ELSE [threw |-> FALSE, buffer |-> <<129, payloadLength>> \o lengthField \o bytes]

\* a fault of #encodeWsMessage: the 16-bit length field from 127 bytes on
EncodeWsMessageFrom127(data) == EncodeWith(data, 127)

EncodeWsMessage(data) == EncodeWith(data, 126)

NullMessage == [null |-> TRUE, bytes |-> <<>>]

\* no upgrade request yet
NoConn == [st |-> "none", encrypted |-> FALSE, wrote101 |-> FALSE, attached |-> FALSE,
           on |-> {}]

\* a fault of #decodeWsMessage: maskI starts at 1
MaskIndexFrom1(byteI, last) == (byteI + 1) % (last + 1)

\* maskI of the loop at payload byte byteI (lines 676-683), with `last` the value after
\* which it goes back to 0: 0, 1, ..., last, 0, ...
MaskIndex(byteI, last) == byteI % (last + 1)

\* #decodeWsMessage(socket, buffer), with `last` the last index of the mask parts the
\* loop uses: [threw, message].  message is socket.message
\* afterwards (the caller set it to null before); threw: a read past the end of the
\* buffer raised a RangeError.
DecodeWith(buffer, junk, last) ==
    LET len    == Len(buffer)
        byte0  == buffer[1]
        opCode == byte0 % 16
        byte1  == buffer[2]
        isMasked == (byte1 \div 128) % 2 = 1
        code   == byte1 % 128
        payloadLength == IF code = 126 THEN buffer[3] * 256 + buffer[4] ELSE code
        keyOffset == IF code = 126 THEN 4 ELSE 2
        keyHi  == buffer[keyOffset + 1] * 256 + buffer[keyOffset + 2]
        keyLo  == buffer[keyOffset + 3] * 256 + buffer[keyOffset + 4]
        masks  == <<(keyHi \div 256) % 256, keyHi % 256, (keyLo \div 256) % 256, keyLo % 256>>
        dataOffset == keyOffset + 4
        ignored == [threw |-> FALSE, message |-> NullMessage]
        raised  == [threw |-> TRUE, message |-> NullMessage]
    IN  IF len < 1 THEN raised
        ELSE IF opCode # 1 THEN ignored
        ELSE IF len < 2 THEN raised
        ELSE IF ~isMasked THEN ignored
        ELSE IF code = 126 /\ len < 4 THEN raised
        ELSE IF code = 127 THEN ignored
        ELSE IF len < keyOffset + 4 THEN raised
        ELSE [threw   |-> len < dataOffset + payloadLength,
              message |-> [null  |-> FALSE,
                           bytes |-> AsSeq([byteI \in 1..payloadLength |->
                                         IF dataOffset + byteI <= len
                                         THEN BitXor(masks[MaskIndex(byteI - 1, last) + 1],
                                                     buffer[dataOffset + byteI])
                                         ELSE AllocUnsafe(payloadLength, junk)[byteI]])]]

\* a fault of #decodeWsMessage: maskI goes back to 0 after 2 (if (maskI < 2))
DecodeWsMessageWrapAt2(buffer, junk) == DecodeWith(buffer, junk, 2)

\* a fault of #decodeWsMessage: byte 1 is taken as masked whatever its bit 7
DecodeWsMessageNoMaskCheck(buffer, junk) ==
    DecodeWith(IF Len(buffer) >= 2 THEN [buffer EXCEPT ![2] = (@ % 128) + 128] ELSE buffer,
               junk, 3)

DecodeWsMessage(buffer, junk) == DecodeWith(buffer, junk, 3)

\* The peer: a client sends the frame with the mask bit set, its 4 mask bytes after
\* the length field and the payload XOR-ed with them (RFC 6455, 5.3).
MaskedFrameOf(frame, mask) ==
    LET headerLen == IF frame[2] = 126 THEN 4 ELSE 2
        n == Len(frame) - headerLen
    IN  AsSeq([i \in 1..(Len(frame) + 4) |->
            IF i = 2 THEN frame[2] + 128
            ELSE IF i <= headerLen THEN frame[i]
            ELSE IF i <= headerLen + 4 THEN mask[i - headerLen]
            ELSE BitXor(frame[i - 4], mask[((i - headerLen - 5) % 4) + 1])])

Junk == {0, 170}

\* socket.encode(data)
WsEncode ==
    /\ wsPc = "idle"
    /\ LET e == EncodeWsMessage(wsData)
       IN  /\ wsFrame' = e.buffer
           /\ wsPc' = IF e.threw THEN "encodeThrew" ELSE "encoded"
    /\ UNCHANGED <<wsData, wsMask, wsWire, socket, wsOn, onlyWss, conn, wsLog>>

\* the peer masks the frame and sends it
ClientSend ==
    /\ wsPc = "encoded"
    /\ wsWire' = MaskedFrameOf(wsFrame, wsMask)
    /\ wsPc' = "sent"
    /\ UNCHANGED <<wsData, wsMask, wsFrame, socket, wsOn, onlyWss, conn, wsLog>>

\* what a callback sees when it is dispatched: the transient fields of the socket
Dispatch(cb, soc) ==
    [cb |-> cb, error |-> soc.error, hadError |-> soc.hadError,
     hasMessage |-> ~soc.message.null]

\* the 'data' handler of #upgradeToWs (lines 773-779) for the chunk `buffer`: the fields
\* are reset, the chunk is decoded and the message callback is called, unless the
\* decoding threw (nothing catches the RangeError)
OnData(buffer) ==
    \E junk \in Junk :
        LET d   == DecodeWsMessage(buffer, junk)
            soc == [error |-> "null", hadError |-> "null", message |-> d.message]
        IN  /\ socket' = soc
            /\ wsPc' = IF d.threw THEN "dataThrew" ELSE "message"
            /\ wsLog' = IF d.threw THEN wsLog ELSE Append(wsLog, Dispatch("message", soc))

\* the 'data' handler runs for the chunk the peer sent
WsOnData ==
    /\ wsPc = "sent"
    /\ OnData(wsWire)
    /\ UNCHANGED <<wsData, wsMask, wsFrame, wsWire, wsOn, onlyWss, conn>>

\* payloads: printable ASCII of the lengths around the header formats, and three short
\* buffers that are not printable text
PrintablePayload(len, seed) == AsSeq([i \in 1..len |-> 32 + ((seed * 31 + i * 7) % 95)])

PayloadLengths == {0, 1, 2, 125, 126, 127, 1000}

Payloads ==
    { PrintablePayload(len, seed) : len \in PayloadLengths, seed \in 0..MaxSeed }
    \cup { PrintablePayload(65535, 0), PrintablePayload(65536, 0) }
    \cup { <<255>>, <<72, 255, 105>>, <<7, 10>> }

Masks == { <<0, 0, 0, 0>>, <<18, 52, 86, 120>>, <<255, 170, 1, 128>> }

(***************************************************************************)
(* socket.send(data, encoded = false)                                      *)
(***************************************************************************)
\* the open sockets a frame is sent to
Sockets == {1, 2}

\* a fault of #sendWsMessage: the flag is ignored and the data is framed in any case
SendWsMessageAlwaysEncodes(data, encoded) ==
    LET e == EncodeWsMessage(data)
    IN  [threw |-> e.threw, bytes |-> e.buffer]

\* #sendWsMessage(data, encoded): what this.write is given; threw = this.encode raised
\* and nothing is written
SendWsMessage(data, encoded) ==
    IF encoded THEN [threw |-> FALSE, bytes |-> data]
    ELSE LET e == EncodeWsMessage(data)
         IN  [threw |-> e.threw, bytes |-> e.buffer]

\* what a send is called with: the payload, or the frame socket.encode returned for it
SendArg(x) == IF x = "frame" THEN wsFrame ELSE wsData

\* the calls made: send(d), send(encode(d), true) and send(d, true)
SendCalls == { <<"data", FALSE>>, <<"frame", TRUE>>, <<"data", TRUE>> }

\* soc.send(x, encoded) on socket k
WsSend(k, x, encoded) ==
    /\ x = "frame" => wsPc = "encoded"
    /\ LET w == SendWsMessage(SendArg(x), encoded)
       IN  wsOut' = IF w.threw THEN wsOut
                    ELSE [wsOut EXCEPT ![k] = Append(@, [x |-> x, encoded |-> encoded,
                                                          bytes |-> w.bytes])]
    /\ UNCHANGED wsVars

(***************************************************************************)
(* The WebSocket connection: ws(event, fn) at setup, the 'upgrade' handler *)
(* of listen(), and the events of the upgraded socket.  #upgradeToWs has   *)
(* no await: the 101 response, the listeners and the open callback happen  *)
(* in one stretch.  An exception a listener lets through ends the process: *)
(* nothing happens after wsPc = "dataThrew".                               *)
(***************************************************************************)
WsEvents == {"close", "error", "message", "open"}

Nulls == [error |-> "null", hadError |-> "null", message |-> NullMessage]

Crashed == wsPc = "dataThrew"

\* ws(event, fn) (lines 607-620)
Ws(event) ==
    /\ ~listening
    /\ wsOn' = wsOn \cup {event}
    /\ UNCHANGED <<wsData, wsMask, wsFrame, wsWire, socket, wsPc, onlyWss, conn, wsLog>>

\* a fault of #upgradeToWs: the open callback before the 101 response
UpgradeToWsOpenFirst(encrypted) ==
    /\ conn' = [st |-> "open", encrypted |-> encrypted, wrote101 |-> TRUE,
                attached |-> TRUE, on |-> wsOn \ {"open"}]
    /\ IF "open" \in wsOn
       THEN /\ socket' = Nulls
            /\ wsLog' = Append(Append(wsLog, Dispatch("open", Nulls)),
                               Dispatch("write101", Nulls))
            /\ wsPc' = "open"
       ELSE /\ wsLog' = Append(wsLog, Dispatch("write101", socket))
            /\ UNCHANGED <<socket, wsPc>>

\* #upgradeToWs(req, socket): the 101 response is written, send and encode are attached,
\* a listener is added for each of close, error and message that has a callback, and
\* the open callback, if there is one, is called with the fields reset
UpgradeToWs(encrypted) ==
    /\ conn' = [st |-> "open", encrypted |-> encrypted, wrote101 |-> TRUE,
                attached |-> TRUE, on |-> wsOn \ {"open"}]
    /\ IF "open" \in wsOn
       THEN /\ socket' = Nulls
            /\ wsLog' = Append(Append(wsLog, Dispatch("write101", socket)),
                               Dispatch("open", Nulls))
            /\ wsPc' = "open"
       ELSE /\ wsLog' = Append(wsLog, Dispatch("write101", socket))
            /\ UNCHANGED <<socket, wsPc>>

\* a fault of #handleStopWs: the handshake response is written before the socket is
\* destroyed
HandleStopWsAfter101(encrypted) ==
    /\ conn' = [conn EXCEPT !.st = "stopped", !.encrypted = encrypted, !.wrote101 = TRUE]
    /\ wsLog' = Append(wsLog, Dispatch("write101", socket))
    /\ UNCHANGED <<socket, wsPc>>

\* #handleStopWs(req, socket): socket.destroySoon()
HandleStopWs(encrypted) ==
    /\ conn' = [conn EXCEPT !.st = "stopped", !.encrypted = encrypted]
    /\ UNCHANGED <<socket, wsPc, wsLog>>

\* the 'upgrade' handler of listen() (lines 922-935); it exists when ws() was called
OnUpgrade(encrypted) ==
    /\ listening
    /\ wsOn # {}
    /\ conn.st = "none"
    /\ IF ~encrypted /\ onlyWss
       THEN HandleStopWs(encrypted)
       ELSE UpgradeToWs(encrypted)
    /\ UNCHANGED <<wsData, wsMask, wsFrame, wsWire, wsOn, onlyWss>>

\* the socket emits 'data' with a chunk
SockData(chunk) ==
    /\ conn.st = "open"
    /\ "message" \in conn.on
    /\ ~Crashed
    /\ wsWire' = chunk
    /\ OnData(chunk)
    /\ UNCHANGED <<wsData, wsMask, wsFrame, wsOn, onlyWss, conn>>

\* a fault of the 'error' listener: socket.message is not reset
SockErrorKeepsMessage ==
    /\ conn.st = "open"
    /\ "error" \in conn.on
    /\ ~Crashed
    /\ LET soc == [error |-> "Error", hadError |-> "null", message |-> socket.message]
       IN  /\ socket' = soc
           /\ wsLog' = Append(wsLog, Dispatch("error", soc))
    /\ wsPc' = "error"
    /\ UNCHANGED <<wsData, wsMask, wsFrame, wsWire, wsOn, onlyWss, conn>>

\* the socket emits 'error' (lines 763-769)
SockError ==
    /\ conn.st = "open"
    /\ "error" \in conn.on
    /\ ~Crashed
    /\ LET soc == [error |-> "Error", hadError |-> "null", message |-> NullMessage]
       IN  /\ socket' = soc
           /\ wsLog' = Append(wsLog, Dispatch("error", soc))
    /\ wsPc' = "error"
    /\ UNCHANGED <<wsData, wsMask, wsFrame, wsWire, wsOn, onlyWss, conn>>

\* the socket emits 'close' (lines 754-760); a destroyed socket closes with no listener
SockClose(hadError) ==
    /\ conn.st \in {"open", "stopped"}
    /\ ~Crashed
    /\ conn' = [conn EXCEPT !.st = "closed"]
    /\ IF "close" \in conn.on
       THEN LET soc == [error |-> "null", hadError |-> hadError, message |-> NullMessage]
            IN  /\ socket' = soc
                /\ wsLog' = Append(wsLog, Dispatch("close", soc))
                /\ wsPc' = "close"
       ELSE UNCHANGED <<socket, wsLog, wsPc>>
    /\ UNCHANGED <<wsData, wsMask, wsFrame, wsWire, wsOn, onlyWss>>

\* chunks a peer can send: b0 b1, then the bytes after them
Chunk(b0, b1, rest) == <<b0, b1>> \o rest

Key == <<18, 52, 86, 120>>

RawChunks ==
    { <<129>>,                                        \* less than the 2-byte header
      <<136>>,                                        \* one byte, opcode close
      Chunk(129, 133, <<18, 52>>),                    \* less than header and key
      Chunk(129, 254, <<0>>),                         \* less than the 16-bit length
      Chunk(129, 130, Key \o <<65>>),                 \* 1 byte of the 2 declared
      Chunk(129, 128, Key),                           \* text, masked, empty
      Chunk(129, 133, Key \o <<90, 81, 58, 20, 125>>),       \* text, masked, 5 bytes
      Chunk(129, 254, <<0, 6>> \o Key \o <<1, 2, 3, 4, 5, 6>>), \* 16-bit length
      Chunk(129, 129, Key \o <<65, 129, 129>> \o Key),        \* a frame and more
      Chunk(130, 129, Key \o <<65>>),                 \* binary
      Chunk(129, 1, <<65>>),                          \* text, mask bit unset
      Chunk(129, 255, <<0, 0, 0, 0, 0, 0, 0, 1>> \o Key \o <<65>>), \* length code 127
      Chunk(1, 129, Key \o <<65>>),                   \* text, FIN = 0
      Chunk(0, 129, Key \o <<66>>),                   \* continuation, FIN = 0
      Chunk(128, 129, Key \o <<67>>) }                \* continuation, FIN = 1

(***************************************************************************)
(* Initial values of the three groups of variables                         *)
(***************************************************************************)
(***************************************************************************)
(* Paths (node:path, POSIX).  A path is the sequence of its characters.    *)
(***************************************************************************)
Reqs  == {1, 2}             \* the requests in flight at one time
NoMax == -1                 \* options.maxBodySize undefined

NoPath  == <<>>             \* undefined, null and '' alike: falsy
NotAString == <<"null">>    \* an argument that is no string (null)

\* process.cwd()
Cwd == <<"/", "s", "/", "a">>

\* path.isAbsolute(p)
IsAbsolute(p) == Len(p) > 0 /\ p[1] = "/"

\* the segments of an absolute path after normalisation: empty ones and "." dropped,
\* ".." climbing one up (not above the root)
RECURSIVE NormParts(_, _, _)
NormParts(parts, i, acc) ==
    IF i > Len(parts) THEN acc
    ELSE IF parts[i] = <<>> \/ parts[i] = <<".">> THEN NormParts(parts, i + 1, acc)
    ELSE IF parts[i] = <<".", ".">>
         THEN NormParts(parts, i + 1,
                        IF acc = <<>> THEN acc ELSE SubSeq(acc, 1, Len(acc) - 1))
    ELSE NormParts(parts, i + 1, Append(acc, parts[i]))

\* path.resolve(p) of an absolute path, as its segments
PathResolve(p) == NormParts(JsSplit(p), 1, <<>>)

\* segments joined by "/", from segment i on
RECURSIVE JoinFrom(_, _)
JoinFrom(parts, i) ==
    IF i > Len(parts) THEN <<>>
    ELSE IF i = Len(parts) THEN parts[i]
    ELSE parts[i] \o <<"/">> \o JoinFrom(parts, i + 1)

\* path.normalize(p) of an absolute path: a trailing separator is kept
PathNormalize(p) ==
    LET parts == PathResolve(p)
    IN  IF parts = <<>> THEN <<"/">>
        ELSE <<"/">> \o JoinFrom(parts, 1)
                 \o (IF p[Len(p)] = "/" THEN <<"/">> ELSE <<>>)

\* path.join(a, b) with a absolute: empty arguments are skipped, the rest is joined by
\* "/" and normalised
PathJoin(a, b) == IF b = <<>> THEN PathNormalize(a) ELSE PathNormalize(a \o <<"/">> \o b)

\* the length of the longest common prefix of two segment lists
RECURSIVE CommonLen(_, _, _)
CommonLen(f, t, i) ==
    IF i <= Len(f) /\ i <= Len(t) /\ f[i] = t[i] THEN CommonLen(f, t, i + 1) ELSE i - 1

\* path.relative(from, to) of absolute paths: both are resolved; ".." for every segment
\* of from below the common prefix, then the rest of to
PathRelative(from, to) ==
    LET f == PathResolve(from)
        t == PathResolve(to)
        c == CommonLen(f, t, 1)
    IN  JoinFrom([i \in 1..(Len(f) - c) |-> <<".", ".">>] \o SubSeq(t, c + 1, Len(t)), 1)

\* /\.\./.test(text)
HasDotDot(text) == \E i \in 1..(Len(text) - 1) : text[i] = "." /\ text[i + 1] = "."

(***************************************************************************)
(* files({cache, dir, index, notFound})                                    *)
(***************************************************************************)
\* files(cfg): threw = one of the two throw statements was reached
Files(cfg) ==
    LET d == IF cfg.dir = NotAString \/ IsAbsolute(cfg.dir) THEN cfg.dir
             ELSE PathJoin(Cwd, cfg.dir)
        called(threw) == [n |-> filesCall.n + 1, dir |-> cfg.dir, threw |-> threw]
    IN  /\ ~listening
        /\ IF cfg.dir = NotAString
           THEN /\ dir' = NoPath
                /\ filesCall' = called(FALSE)
                /\ UNCHANGED <<index, indexAbsolute, notFound, cacheEnabled>>
           ELSE IF d = Cwd \/ HasDotDot(PathRelative(Cwd, d))
           THEN /\ filesCall' = called(TRUE)
                /\ UNCHANGED <<dir, index, indexAbsolute, notFound, cacheEnabled>>
           ELSE /\ cacheEnabled' = cfg.cache
                /\ dir' = d
                /\ index' = cfg.index
                /\ indexAbsolute' = IF cfg.index # NoPath /\ cfg.index[1] = "/" THEN TRUE
                                    ELSE indexAbsolute
                /\ notFound' = IF cfg.notFound # NotAString THEN PathJoin(d, cfg.notFound)
                               ELSE NoPath
                /\ filesCall' = called(FALSE)
        /\ UNCHANGED <<prefix, types, options, cache, middlewareFile, disk, rq, served, cacheCall>>

\* the directories files() is called with
Dirs ==
    { <<"p">>,                                  \* public
      <<"/", "s", "/", "a", "/", "p">>,         \* the same, absolute
      <<"/", "s", "/", "a">>,                   \* process.cwd()
      <<"/", "s", "/", "a", "/">>,              \* process.cwd() + '/'
      <<".">>, <<".", "/">>,                    \* . and ./
      <<"/", "s">>, <<"/", "s", "/">>, <<"/">>, <<".", ".">>,   \* ancestors
      <<"p", "/", ".", ".">>,                   \* public/..
      <<"/", "s", "/", "b">>,                   \* a sibling of the working directory
      NotAString }

IndexHtml    == <<"i", ".", "h">>               \* index.html
NotFoundHtml == <<"n", ".", "h">>               \* 404.html

FilesCfgs ==
    [cache : BOOLEAN, dir : Dirs, index : {IndexHtml, <<"/">> \o IndexHtml, NoPath},
     notFound : {NotFoundHtml, NotAString}]

(***************************************************************************)
(* The listener with file serving, per request.  The functions of the two  *)
(* middleware arrays and the route handlers are the developer's: a         *)
(* #midCall that invoked a function may have ended the response and may    *)
(* have thrown, and other requests and cache calls run while it waits.     *)
(***************************************************************************)
\* what a response was ended with, besides the content of a file
NoBody       == "-"             \* nothing was sent
EmptyBody    == ""              \* res.end() and res.end(undefined)
NotFoundText == "Not found"
MidBody      == "middleware"    \* a middleware function ended the response
HandlerBody  == "handler"       \* the route handler ended the response

\* a request slot no request is in.  Ghost fields: routed = the listener reached the
\* check of the method (line 870); late = res.end calls made when res.finished was true
NoRq ==
    [pc |-> "idle", method |-> "", url |-> <<>>, host |-> "", contentType |-> "",
     contentLength |-> <<>>, encrypted |-> FALSE, rawUrl |-> <<>>,
     isApi |-> "null", phase |-> "", file |-> NoPath, content |-> "", fromCache |-> FALSE,
     destroyed |-> FALSE, finished |-> FALSE, statusCode |-> 200, sentStatus |-> 0,
     body |-> NoBody, location |-> <<>>, handler |-> NoHandler,
     ends |-> 0, reads |-> <<>>, resolved |-> FALSE, fileMid |-> 0, apiMid |-> 0,
     handled |-> 0, byFile |-> FALSE, expect |-> "", routed |-> FALSE, late |-> 0]

DigitVal ==
    ("0" :> 0) @@ ("1" :> 1) @@ ("2" :> 2) @@ ("3" :> 3) @@ ("4" :> 4) @@
    ("5" :> 5) @@ ("6" :> 6) @@ ("7" :> 7) @@ ("8" :> 8) @@ ("9" :> 9)

NaN == -1

\* parseInt(text): the number of the leading digits, NaN when there is none
RECURSIVE ParseDigits(_, _, _)
ParseDigits(text, i, acc) ==
    IF i > Len(text) \/ text[i] \notin DOMAIN DigitVal
    THEN (IF i = 1 THEN NaN ELSE acc)
    ELSE ParseDigits(text, i + 1, acc * 10 + DigitVal[text[i]])

ParseInt(text) == ParseDigits(text, 1, 0)

\* /^\/api\//.test(url)
ApiPrefix == <<"/", "a", "p", "i", "/">>

PrefixTest(url) == Len(url) >= Len(ApiPrefix) /\ SubSeq(url, 1, Len(ApiPrefix)) = ApiPrefix

\* /\.\w+/.test(url): a dot followed by a word character
HasExtension(url) ==
    \E i \in 1..(Len(url) - 1) : url[i] = "." /\ url[i + 1] \notin {".", "/", "?"}

\* res.end(body): the first call sends the response
End(q, body) ==
    IF q.finished THEN [q EXCEPT !.late = @ + 1]
    ELSE [q EXCEPT !.finished = TRUE, !.body = body, !.sentStatus = q.statusCode,
                   !.ends = @ + 1]

\* if (!res.finished) res.end(body)
EndIfOpen(q, body) == IF q.finished THEN q ELSE End(q, body)

\* a fault of #serveFile: the cache is never looked at
CacheHitNever(c, file) == FALSE

\* lines 392-394: the cache is enabled and has the file
CacheHit(c, file) == cacheEnabled /\ file \in DOMAIN c

\* #serveFile(req, res, file) up to its first await or, without file middleware, to its
\* return: [q, cache, ret] with ret "true", "false" or "await".  #midCall invokes the
\* functions of its first group before it waits, unless the response is finished.
ServeFileBegin(q, c, file, phase) ==
    LET mid     == Len(middlewareFile) > 0
        hit     == CacheHit(c, file)
        waiting == [q EXCEPT !.pc = "fileMid", !.phase = phase, !.file = file,
                             !.fileMid = IF q.finished THEN @ ELSE @ + 1,
                             !.expect = IF file \in DOMAIN served THEN served[file] ELSE ""]
    IN  IF hit
        THEN IF mid
             THEN [q |-> [waiting EXCEPT !.fromCache = TRUE, !.content = ""],
                   cache |-> c, ret |-> "await"]
             ELSE [q |-> [EndIfOpen(q, c[file]) EXCEPT !.byFile = ~q.finished, !.file = file,
                            !.expect = IF file \in DOMAIN served THEN served[file] ELSE ""],
                   cache |-> c, ret |-> "true"]
        ELSE IF file \notin DOMAIN disk
        THEN [q |-> [q EXCEPT !.reads = Append(@, file)], cache |-> c, ret |-> "false"]
        ELSE LET content == disk[file]
                 c1 == IF cacheEnabled THEN (file :> content) @@ c ELSE c
             IN  IF mid
                 THEN [q |-> [waiting EXCEPT !.fromCache = FALSE, !.content = content,
                                             !.reads = Append(@, file)],
                       cache |-> c1, ret |-> "await"]
                 ELSE [q |-> [EndIfOpen(q, content) EXCEPT !.byFile = ~q.finished,
                                !.file = file, !.reads = Append(@, file),
                                !.expect = IF file \in DOMAIN served THEN served[file]
                                           ELSE ""],
                       cache |-> c1, ret |-> "true"]

\* handler(req, res): the handler may end the response before it returns
CallRouteHandler(q, h) ==
    [(IF h THEN End(q, HandlerBody) ELSE q) EXCEPT !.handled = @ + 1, !.pc = "done"]

\* the listener from the check of the method on (lines 870-886), up to its await
ApiPart(q0, h) ==
    LET q == [q0 EXCEPT !.routed = TRUE]
    IN
    IF q.method \notin methods
    THEN [End([q EXCEPT !.statusCode = 404], NotFoundText) EXCEPT !.pc = "done"]
    ELSE LET r  == GetRoute(routes, urlVar, q.method, q.url)
             q1 == [q EXCEPT !.resolved = TRUE, !.handler = r.handler]
         IN  IF r.handler = NoHandler
             THEN [End([q1 EXCEPT !.statusCode = 404], NotFoundText) EXCEPT !.pc = "done"]
             ELSE IF Len(middlewareApi) > 0
             THEN [q1 EXCEPT !.pc = "apiMid",
                             !.apiMid = IF q1.finished THEN @ ELSE @ + 1]
             ELSE IF q1.finished THEN [q1 EXCEPT !.pc = "done"]
             ELSE CallRouteHandler(q1, h)

\* #handleNotFoundPage(req, res) up to its await or its return: [q, cache]
HandleNotFoundPage(q, c) ==
    LET q1 == [q EXCEPT !.statusCode = 404]
    IN  IF notFound = NoPath
        THEN [q |-> [End(q1, NotFoundText) EXCEPT !.pc = "done"], cache |-> c]
        ELSE LET s == ServeFileBegin(q1, c, notFound, "notFound")
             IN  IF s.ret = "await" THEN [q |-> s.q, cache |-> s.cache]
                 ELSE IF s.ret = "true"
                 THEN [q |-> [s.q EXCEPT !.pc = "done"], cache |-> s.cache]
                 ELSE [q |-> [End(s.q, NotFoundText) EXCEPT !.pc = "done"],
                       cache |-> s.cache]

\* a fault of the listener: a request no file was served for goes on to the routes,
\* whatever the prefix test said
AfterServeFileFallsThrough(q, c, ok, h) ==
    IF ok THEN [q |-> [q EXCEPT !.pc = "done"], cache |-> c]
    ELSE [q |-> ApiPart(q, h), cache |-> c]

\* the listener after `await this.#serveFile(req, res, file)` of line 859 gave ok
AfterServeFile(q, c, ok, h) ==
    IF ok THEN [q |-> [q EXCEPT !.pc = "done"], cache |-> c]
    ELSE IF q.isApi = "false" THEN HandleNotFoundPage(q, c)
    ELSE [q |-> ApiPart(q, h), cache |-> c]

\* the file the listener serves for req.url (lines 846-856)
FileOf(url) ==
    IF index # NoPath /\ ~HasExtension(url)
    THEN IF indexAbsolute THEN PathJoin(dir, index)
         ELSE PathJoin(PathJoin(dir, url), index)
    ELSE PathJoin(dir, url)

\* a fault of the listener: the redirect names the URL without its ?parameters
RedirectUrlWithoutParams(url) == CutAtQuery(url, 1)

\* the URL #handleUnencryptedHttp redirects to: req.url as it arrived
RedirectUrl(url) == url

\* a fault of the listener: the Content-Length is not looked at
TooLargeNever(q) == FALSE

\* lines 818-822: the Content-Length says more than options.maxBodySize
TooLarge(q) ==
    /\ options.maxBodySize # NoMax
    /\ q.contentLength # <<>>
    /\ ParseInt(q.contentLength) # NaN
    /\ ParseInt(q.contentLength) > options.maxBodySize

\* the listener (lines 812-887) for a request, up to its first await or its return:
\* [q, cache]
ListenerBegin(q0, c, h) ==
    LET allTypes == types \cup options.types
    IN  IF q0.contentType # "" /\ q0.contentType \notin allTypes
        THEN [q |-> [q0 EXCEPT !.destroyed = TRUE, !.pc = "done"], cache |-> c]
        ELSE IF TooLarge(q0)
        THEN [q |-> [q0 EXCEPT !.destroyed = TRUE, !.pc = "done"], cache |-> c]
        ELSE IF ~q0.encrypted /\ options.onlyHttps
        THEN [q |-> [End([q0 EXCEPT !.statusCode = 301,
                                    !.location = <<q0.host, RedirectUrl(q0.url)>>],
                         EmptyBody) EXCEPT !.pc = "done"],
              cache |-> c]
        ELSE LET url == StripSlash(CutAtQuery(q0.url, 1))
                 q1  == [q0 EXCEPT !.url = url]
             IN  IF dir # NoPath
                 THEN LET isApi == IF prefix THEN (IF PrefixTest(url) THEN "true" ELSE "false")
                                   ELSE "null"
                          q2    == [q1 EXCEPT !.isApi = isApi]
                      IN  IF isApi = "false" \/ ~prefix
                          THEN LET s == ServeFileBegin(q2, c, FileOf(url), "file")
                               IN  IF s.ret = "await" THEN [q |-> s.q, cache |-> s.cache]
                                   ELSE AfterServeFile(s.q, s.cache, s.ret = "true", h)
                          ELSE [q |-> ApiPart(q2, h), cache |-> c]
                 ELSE [q |-> ApiPart(q1, h), cache |-> c]

\* what the first serve of a file with the cache enabled records
ServedAfter(q, c) ==
    IF q.byFile /\ cacheEnabled /\ q.file \in DOMAIN c /\ q.file \notin DOMAIN served
    THEN (q.file :> c[q.file]) @@ served
    ELSE served

\* a request arrives and the listener runs for it
Arrive(r, request, h) ==
    /\ listening
    /\ rq[r].pc = "idle"
    /\ LET q0 == [NoRq EXCEPT !.pc = "run", !.method = request.method,
                              !.url = request.url, !.rawUrl = request.url,
                              !.host = request.host,
                              !.contentType = request.contentType,
                              !.contentLength = request.contentLength,
                              !.encrypted = request.encrypted]
           s  == ListenerBegin(q0, cache, h)
       IN  /\ rq' = [rq EXCEPT ![r] = s.q]
           /\ cache' = s.cache
           /\ served' = ServedAfter(s.q, s.cache)
    /\ UNCHANGED <<prefix, types, options, dir, index, indexAbsolute, notFound,
                   cacheEnabled, middlewareFile, disk, filesCall, cacheCall>>

\* `await this.#midCall(...)` of request r returns (or throws): fin = a function ended
\* the response, h = the route handler ends the response when it is called
MidReturn(r, fin, threw, h) ==
    LET q  == rq[r]
        q1 == IF fin THEN End(q, MidBody) ELSE q
    IN  /\ q.pc \in {"fileMid", "apiMid"}
        /\ (fin \/ threw) => ~q.finished        \* no function was invoked otherwise
        /\ LET s == IF q.pc = "apiMid"
                    THEN [q |-> IF threw THEN [q1 EXCEPT !.pc = "failed"]
                                ELSE IF q1.finished THEN [q1 EXCEPT !.pc = "done"]
                                ELSE CallRouteHandler(q1, h),
                          cache |-> cache]
                    ELSE IF threw
                    THEN \* catch (err) { return false }
                         IF q.phase = "file" THEN AfterServeFile(q1, cache, FALSE, h)
                         ELSE [q |-> [End(q1, NotFoundText) EXCEPT !.pc = "done"],
                               cache |-> cache]
                    ELSE LET content == IF ~q.fromCache THEN q.content
                                        ELSE IF q.file \in DOMAIN cache THEN cache[q.file]
                                        ELSE EmptyBody
                             q2 == IF q1.finished THEN q1
                                   ELSE [End(q1, content) EXCEPT !.byFile = TRUE]
                         IN  [q |-> [q2 EXCEPT !.pc = "done"], cache |-> cache]
           IN  /\ rq' = [rq EXCEPT ![r] = s.q]
               /\ cache' = s.cache
               /\ served' = ServedAfter(s.q, s.cache)
        /\ UNCHANGED <<prefix, types, options, dir, index, indexAbsolute, notFound,
                       cacheEnabled, middlewareFile, disk, filesCall, cacheCall>>

\* the response of request r is over: the slot takes the next request
Release(r) ==
    /\ rq[r].pc \in {"done", "failed"}
    /\ rq' = [rq EXCEPT ![r] = NoRq]
    /\ UNCHANGED <<prefix, types, options, dir, index, indexAbsolute, notFound,
                   cacheEnabled, cache, middlewareFile, disk, filesCall, served, cacheCall>>

(***************************************************************************)
(* midFileAsync / midFileSync, listen(options)                             *)
(***************************************************************************)
MidFileAsync(n) ==
    /\ ~listening
    /\ middlewareFile' = MidPush(middlewareFile, FALSE, n)
    /\ UNCHANGED <<prefix, types, options, dir, index, indexAbsolute, notFound,
                   cacheEnabled, cache, disk, rq, filesCall, served, cacheCall>>

MidFileSync(n) ==
    /\ ~listening
    /\ middlewareFile' = MidPush(middlewareFile, TRUE, n)
    /\ UNCHANGED <<prefix, types, options, dir, index, indexAbsolute, notFound,
                   cacheEnabled, cache, disk, rq, filesCall, served, cacheCall>>

\* listen(o)
ListenWith(o) ==
    /\ Listen
    /\ options' = o
    /\ UNCHANGED <<prefix, types, dir, index, indexAbsolute, notFound, cacheEnabled,
                   cache, middlewareFile, disk, rq, filesCall, served, cacheCall>>

(***************************************************************************)
(* The cache calls and the file system                                     *)
(***************************************************************************)
\* a cache call was made: requests in flight are no longer later requests of a file
\* served before it
Forget(q) == IF q.pc \in {"fileMid", "apiMid"} THEN [q EXCEPT !.expect = ""] ELSE q

\* cacheClear()
CacheClear ==
    /\ cache' = <<>>
    /\ served' = <<>>
    /\ rq' = [r \in Reqs |-> Forget(rq[r])]
    /\ cacheCall' = [op |-> "clear", before |-> cache]
    /\ UNCHANGED <<prefix, types, options, dir, index, indexAbsolute, notFound,
                   cacheEnabled, middlewareFile, disk, filesCall>>

\* cacheDisable()
CacheDisable ==
    /\ cacheEnabled' = FALSE
    /\ served' = <<>>
    /\ rq' = [r \in Reqs |-> Forget(rq[r])]
    /\ cacheCall' = [op |-> "disable", before |-> cache]
    /\ UNCHANGED <<prefix, types, options, dir, index, indexAbsolute, notFound,
                   cache, middlewareFile, disk, filesCall>>

\* cacheEnable()
CacheEnable ==
    /\ cacheEnabled' = TRUE
    /\ cacheCall' = [op |-> "enable", before |-> cache]
    /\ UNCHANGED <<prefix, types, options, dir, index, indexAbsolute, notFound,
                   cache, middlewareFile, disk, rq, filesCall, served>>

\* a fault of cacheRefresh: a key whose file cannot be read keeps its content
RefreshedKeepingUnreadable(c) ==
    [f \in DOMAIN c |-> IF f \in DOMAIN disk THEN disk[f] ELSE c[f]]

\* the cache after the loop of cacheRefresh: every key is read again; the key of a file
\* that cannot be read is deleted
Refreshed(c) == [f \in { g \in DOMAIN c : g \in DOMAIN disk } |-> disk[f]]

\* cacheRefresh()
CacheRefresh ==
    /\ cache' = Refreshed(cache)
    /\ served' = <<>>
    /\ rq' = [r \in Reqs |-> Forget(rq[r])]
    /\ cacheCall' = [op |-> "refresh", before |-> cache]
    /\ UNCHANGED <<prefix, types, options, dir, index, indexAbsolute, notFound,
                   cacheEnabled, middlewareFile, disk, filesCall>>

\* the file system changes: file f is written with content v
DiskWrite(f, v) ==
    /\ disk' = (f :> v) @@ disk
    /\ UNCHANGED <<prefix, types, options, dir, index, indexAbsolute, notFound,
                   cacheEnabled, cache, middlewareFile, rq, filesCall, served, cacheCall>>

\* the file system changes: file f is deleted
DiskDelete(f) ==
    /\ f \in DOMAIN disk
    /\ disk' = [g \in DOMAIN disk \ {f} |-> disk[g]]
    /\ UNCHANGED <<prefix, types, options, dir, index, indexAbsolute, notFound,
                   cacheEnabled, cache, middlewareFile, rq, filesCall, served, cacheCall>>

(***************************************************************************)
(* The documented example (doc/server.md, `api` full example): the array   *)
(* soups, three handlers, and the built-in API middleware                  *)
(* midApiReqBodyJson, midApiResDefaults and midApiResEnd.  Texts (bodies,  *)
(* URLs, keys) are sequences of characters.                                *)
(***************************************************************************)
Q == "\""
tName == <<"n", "a", "m", "e">>
tId   == <<"i", "d">>
ApplicationJson == "application/json"

\* JavaScript values: undefined, a string, a number, or an object whose members m are
\* [k, v] in insertion order with v a string or a number
Undefined == [t |-> "undefined", s |-> <<>>, n |-> 0, m |-> <<>>]
Str(s)    == [t |-> "string", s |-> s, n |-> 0, m |-> <<>>]
Num(n)    == [t |-> "number", s |-> <<>>, n |-> n, m |-> <<>>]
Obj(m)    == [t |-> "object", s |-> <<>>, n |-> 0, m |-> m]

\* !v
Falsy(v) ==
    \/ v.t = "undefined"
    \/ v.t = "number" /\ v.n = 0
    \/ v.t = "string" /\ v.s = <<>>

\* v[k] for a key k
Get(v, k) ==
    IF v.t = "object" /\ \E i \in 1..Len(v.m) : v.m[i].k = k
    THEN v.m[CHOOSE i \in 1..Len(v.m) : v.m[i].k = k].v
    ELSE Undefined

\* the members after obj[k] = v: an existing key keeps its place
SetMember(m, k, v) ==
    IF \E i \in 1..Len(m) : m[i].k = k
    THEN [m EXCEPT ![CHOOSE i \in 1..Len(m) : m[i].k = k].v = v]
    ELSE Append(m, [k |-> k, v |-> v])

DigitChar == <<"0", "1", "2", "3", "4", "5", "6", "7", "8", "9">>

\* String(n) for an integer n >= 0
RECURSIVE Decimal(_)
Decimal(n) ==
    IF n < 10 THEN <<DigitChar[n + 1]>>
    ELSE Decimal(n \div 10) \o <<DigitChar[(n % 10) + 1]>>

\* JSON.stringify of a string or a number
ScalarText(v) == IF v.t = "string" THEN <<Q>> \o v.s \o <<Q>> ELSE Decimal(v.n)

RECURSIVE MembersText(_, _)
MembersText(m, i) ==
    IF i > Len(m) THEN <<>>
    ELSE (IF i > 1 THEN <<",">> ELSE <<>>) \o <<Q>> \o m[i].k \o <<Q, ":">>
         \o ScalarText(m[i].v) \o MembersText(m, i + 1)

\* what res.end(JSON.stringify(v)) writes: nothing for undefined
JsonStringify(v) ==
    IF v.t = "undefined" THEN <<>>
    ELSE IF v.t = "object" THEN <<"{">> \o MembersText(v.m, 1) \o <<"}">>
    ELSE ScalarText(v)

RECURSIVE ArrayText(_, _)
ArrayText(a, i) ==
    IF i > Len(a) THEN <<>>
    ELSE (IF i > 1 THEN <<",">> ELSE <<>>) \o JsonStringify(a[i]) \o ArrayText(a, i + 1)

\* JSON.stringify of an array
JsonStringifyArray(a) == <<"[">> \o ArrayText(a, 1) \o <<"]">>

\* JSON.parse of texts without white space and escapes: [ok, v, i] with i the place
\* after the value; ok = FALSE is the SyntaxError
ParseFail == [ok |-> FALSE, v |-> Undefined, i |-> 0]

RECURSIVE FindQuote(_, _)
FindQuote(t, i) ==
    IF i > Len(t) THEN 0 ELSE IF t[i] = Q THEN i ELSE FindQuote(t, i + 1)

ParseString(t, i) ==
    IF i <= Len(t) /\ t[i] = Q
    THEN LET j == FindQuote(t, i + 1)
         IN  IF j = 0 THEN ParseFail
             ELSE [ok |-> TRUE, v |-> Str(SubSeq(t, i + 1, j - 1)), i |-> j + 1]
    ELSE ParseFail

RECURSIVE NumberFrom(_, _, _)
NumberFrom(t, i, acc) ==
    IF i > Len(t) \/ t[i] \notin DOMAIN DigitVal
    THEN [ok |-> TRUE, v |-> Num(acc), i |-> i]
    ELSE NumberFrom(t, i + 1, acc * 10 + DigitVal[t[i]])

\* a number has no leading zero
ParseNumber(t, i) ==
    IF i > Len(t) \/ t[i] \notin DOMAIN DigitVal THEN ParseFail
    ELSE IF t[i] = "0" THEN [ok |-> TRUE, v |-> Num(0), i |-> i + 1]
    ELSE NumberFrom(t, i, 0)

ParseScalar(t, i) ==
    IF i <= Len(t) /\ t[i] = Q THEN ParseString(t, i) ELSE ParseNumber(t, i)

RECURSIVE ParseMembers(_, _, _)
ParseMembers(t, i, acc) ==
    LET k == ParseString(t, i)
    IN  IF ~k.ok \/ k.i > Len(t) \/ t[k.i] # ":" THEN ParseFail
        ELSE LET v    == ParseScalar(t, k.i + 1)
                 acc1 == SetMember(acc, k.v.s, v.v)
             IN  IF ~v.ok \/ v.i > Len(t) THEN ParseFail
                 ELSE IF t[v.i] = "," THEN ParseMembers(t, v.i + 1, acc1)
                 ELSE IF t[v.i] = "}" THEN [ok |-> TRUE, v |-> Obj(acc1), i |-> v.i + 1]
                 ELSE ParseFail

ParseValue(t, i) ==
    IF i <= Len(t) /\ t[i] = "{"
    THEN IF i < Len(t) /\ t[i + 1] = "}"
         THEN [ok |-> TRUE, v |-> Obj(<<>>), i |-> i + 2]
         ELSE ParseMembers(t, i + 1, <<>>)
    ELSE ParseScalar(t, i)

JsonParse(t) ==
    LET p == ParseValue(t, 1)
    IN  IF p.ok /\ p.i = Len(t) + 1 THEN [ok |-> TRUE, v |-> p.v]
        ELSE [ok |-> FALSE, v |-> Undefined]

\* a fault of midApiReqBodyJson: a body that does not parse leaves req.body unassigned
ParsedBodyOrUndefined(raw) ==
    LET p == JsonParse(raw) IN IF p.ok THEN p.v ELSE Undefined

\* try { req.body = JSON.parse(...) } catch (err) { req.body = {} }
ParsedBody(raw) ==
    LET p == JsonParse(raw) IN IF p.ok THEN p.v ELSE Obj(<<>>)

\* Number(text) as isNaN and the comparisons of the handler coerce req.vars.soupId:
\* digits, with or without a minus sign; anything else is NaN
AllDigits(text) == text # <<>> /\ \A i \in 1..Len(text) : text[i] \in DOMAIN DigitVal

ToNumber(text) ==
    IF AllDigits(text) THEN [nan |-> FALSE, n |-> ParseDigits(text, 1, 0)]
    ELSE IF text # <<>> /\ text[1] = "-" /\ AllDigits(Tail(text))
    THEN [nan |-> FALSE, n |-> 0 - ParseDigits(Tail(text), 1, 0)]
    ELSE [nan |-> TRUE, n |-> 0]

\* a[key] for an array a and a text key: an element only for the decimal of an index
ArrayGet(a, key) ==
    IF \E i \in 1..Len(a) : key = Decimal(i - 1)
    THEN a[CHOOSE i \in 1..Len(a) : key = Decimal(i - 1)]
    ELSE Undefined

\* the built-in functions the example registers
BodyJson    == "midApiReqBodyJson"
ResDefaults == "midApiResDefaults"
ResEnd      == "midApiResEnd"
Builtins    == <<BodyJson, ResDefaults, ResEnd>>

uSoups   == <<"/", "a", "p", "i", "/", "s", "o", "u", "p", "s">>
vSoupId  == <<"s", "o", "u", "p", "I", "d">>
uSoupVar == uSoups \o <<"/", "{">> \o vSoupId \o <<"}">>

\* the body of #handleNotFoundApi
NotFoundChars == <<"N", "o", "t", " ", "f", "o", "u", "n", "d">>

\* a request of the example and its response
NoSq ==
    [pc          |-> "idle",     \* "idle", "apiMid" (await #midCall), "done", "failed"
     method      |-> "",
     url         |-> <<>>,
     contentType |-> "",
     raw         |-> <<>>,       \* the body the client sends
     bodyPending |-> FALSE,      \* midApiReqBodyJson waits for the 'end' of the body
     grp         |-> 0,          \* the group #midCall awaits
     reqBody     |-> Undefined,  \* req.body
     reqVars     |-> <<>>,       \* req.vars
     handler     |-> NoHandler,
     statusCode  |-> 200,        \* res.statusCode
     hasEnd      |-> FALSE,      \* res.endJson, res.endBadRequest, ... are defined
     finished    |-> FALSE,
     destroyed   |-> FALSE,
     sentStatus  |-> 0,
     out         |-> <<>>,       \* the body of the response
     len         |-> -1,         \* ghost: soups.length when the handler ran
     assigned    |-> -1]         \* ghost: the id the handler gave the soup

\* res.end(text)
SqEnd(q, text) ==
    IF q.finished THEN q
    ELSE [q EXCEPT !.finished = TRUE, !.out = text, !.sentStatus = q.statusCode]

\* res.endJson(v); without midApiResEnd the call throws a TypeError
EndJson(q, text) ==
    IF q.hasEnd THEN [SqEnd(q, text) EXCEPT !.pc = "done"] ELSE [q EXCEPT !.pc = "failed"]

\* res.endBadRequest() and res.endNotFound()
EndStatus(q, code) ==
    IF q.hasEnd THEN [SqEnd([q EXCEPT !.statusCode = code], <<>>) EXCEPT !.pc = "done"]
    ELSE [q EXCEPT !.pc = "failed"]

\* server.post('/api/soups', ...): [q, soups]
PostSoups(q, a) ==
    IF Falsy(q.reqBody) \/ Falsy(Get(q.reqBody, tName))
    THEN [q |-> EndStatus(q, 400), soups |-> a]
    ELSE LET soup == Obj(SetMember(q.reqBody.m, tId, Num(Len(a))))
         IN  [q |-> [EndJson(q, JsonStringify(soup)) EXCEPT !.assigned = Len(a)],
              soups |-> Append(a, soup)]

\* server.get('/api/soups', ...)
GetSoups(q, a) == [q |-> EndJson(q, JsonStringifyArray(a)), soups |-> a]

\* server.get('/api/soups/{soupId}', ...)
GetSoup(q, a) ==
    LET soupId == IF vSoupId \in DOMAIN q.reqVars THEN q.reqVars[vSoupId] ELSE <<>>
        num    == ToNumber(soupId)
    IN  IF num.nan \/ num.n < 0 \/ num.n >= Len(a)
        THEN [q |-> EndStatus(q, 404), soups |-> a]
        ELSE [q |-> EndJson(q, JsonStringify(ArrayGet(a, soupId))), soups |-> a]

\* handler(req, res) of line 886, by the number of the api() call that registered it
SoupsHandler(q0, a) ==
    LET q == [q0 EXCEPT !.len = Len(a)]
    IN  IF q.finished THEN [q |-> [q EXCEPT !.pc = "done"], soups |-> a]
        ELSE IF q.handler = HandlerOf(1) THEN PostSoups(q, a)
        ELSE IF q.handler = HandlerOf(2) THEN GetSoups(q, a)
        ELSE GetSoup(q, a)

\* mid(req, res) for a built-in function, up to its first await or its return
CallBuiltin(q, name) ==
    IF name = BodyJson
    THEN IF q.contentType # ApplicationJson THEN q ELSE [q EXCEPT !.bodyPending = TRUE]
    ELSE IF name = ResDefaults
    THEN [q EXCEPT !.statusCode = IF q.method = "POST" THEN 201 ELSE 200]
    ELSE [q EXCEPT !.hasEnd = TRUE]

\* the calls of one group from function i on; a sync group stops when the response is
\* finished
RECURSIVE CallGroup(_, _, _, _)
CallGroup(q, sync, names, i) ==
    IF i > Len(names) THEN q
    ELSE LET q1 == CallBuiltin(q, names[i])
         IN  IF sync /\ q1.finished THEN q1 ELSE CallGroup(q1, sync, names, i + 1)

\* #midCall from group g on: the request waits (pc "apiMid") in a concurrent group one
\* of whose promises is pending; a sync group is never waited for
RECURSIVE MidCallFrom(_, _)
MidCallFrom(q, g) ==
    IF g > Len(middlewareApi) \/ q.finished THEN [q EXCEPT !.pc = "run"]
    ELSE LET q1 == CallGroup(q, middlewareApi[g].sync, midNames[g], 1)
         IN  IF ~middlewareApi[g].sync /\ q1.bodyPending /\ ~q.bodyPending
             THEN [q1 EXCEPT !.pc = "apiMid", !.grp = g]
             ELSE MidCallFrom(q1, g + 1)

\* the listener from `await this.#midCall` on: [q, soups]
SoupsAfterMid(q, a) ==
    IF q.pc = "apiMid" THEN [q |-> q, soups |-> a] ELSE SoupsHandler(q, a)

\* the listener for a request of the example: no files are served, listen() was given
\* no types, maxBodySize or onlyHttps
SoupsListener(q0, a) ==
    IF q0.contentType # "" /\ q0.contentType \notin (types \cup options.types)
    THEN [q |-> [q0 EXCEPT !.destroyed = TRUE, !.pc = "done"], soups |-> a]
    ELSE LET url == StripSlash(CutAtQuery(q0.url, 1))
             q1  == [q0 EXCEPT !.url = url]
         IN  IF q1.method \notin methods
             THEN [q |-> [SqEnd([q1 EXCEPT !.statusCode = 404], NotFoundChars)
                            EXCEPT !.pc = "done"],
                   soups |-> a]
             ELSE LET r  == GetRoute(routes, urlVar, q1.method, url)
                      q2 == [q1 EXCEPT !.handler = r.handler, !.reqVars = r.vars]
                  IN  IF r.handler = NoHandler
                      THEN [q |-> [SqEnd([q2 EXCEPT !.statusCode = 404], NotFoundChars)
                                     EXCEPT !.pc = "done"],
                            soups |-> a]
                      ELSE SoupsAfterMid(MidCallFrom(q2, 1), a)

\* server.midApiSync(...Builtins) / server.midApiAsync(...Builtins)
MidApiBuiltins(sync) ==
    /\ IF sync THEN MidApiSync(Len(Builtins)) ELSE MidApiAsync(Len(Builtins))
    /\ midNames' = Append(midNames, Builtins)
    /\ types' = types \cup {ApplicationJson}
    /\ UNCHANGED <<prefix, options, dir, index, indexAbsolute, notFound, cacheEnabled,
                   cache, middlewareFile, disk, rq, filesCall, served, cacheCall>>
    /\ UNCHANGED <<soups, sq, bq>>

\* a request of the example arrives and the listener runs for it
SoupsArrive(r, request) ==
    /\ listening
    /\ sq[r].pc = "idle"
    /\ request.method = "POST" => Len(soups) < MaxSoups
    /\ LET q0 == [NoSq EXCEPT !.pc = "run", !.method = request.method,
                              !.url = request.url,
                              !.contentType = request.contentType,
                              !.raw = request.raw]
           s  == SoupsListener(q0, soups)
       IN  /\ sq' = [sq EXCEPT ![r] = s.q]
           /\ soups' = s.soups
    /\ UNCHANGED <<midNames, bq>>

\* the 'end' event of the body of request r: midApiReqBodyJson parses it and resolves;
\* a listener that awaits it goes on
SoupsBodyEnd(r) ==
    LET q  == sq[r]
        q1 == [q EXCEPT !.bodyPending = FALSE, !.reqBody = ParsedBody(q.raw)]
    IN  /\ q.bodyPending
        /\ LET s == IF q.pc = "apiMid" THEN SoupsAfterMid(MidCallFrom(q1, q.grp + 1), soups)
                    ELSE [q |-> q1, soups |-> soups]
           IN  /\ sq' = [sq EXCEPT ![r] = s.q]
               /\ soups' = s.soups
        /\ UNCHANGED <<midNames, bq>>

\* the response of request r is over: the slot takes the next request
SoupsRelease(r) ==
    /\ sq[r].pc \in {"done", "failed"}
    /\ ~sq[r].bodyPending
    /\ sq' = [sq EXCEPT ![r] = NoSq]
    /\ UNCHANGED <<midNames, soups, bq>>

(***************************************************************************)
(* The built-in body middleware on a streamed body: midApiReqBodyJson and  *)
(* midApiReqBodyOther, the 'data' and 'end' events of the request, and     *)
(* the listener around them.  One request at a time; the handler is the    *)
(* developer's.                                                            *)
(***************************************************************************)
BodyOther == "midApiReqBodyOther"

\* a function handed to midApiSync / midApiAsync: a built-in as the documentation hands
\* it over (server.midApiReqBodyJson, which #midCall calls without a receiver, so its
\* `this` is undefined) or bound to the server (server.midApiReqBodyJson.bind(server))
Fn(name, bound) == [fn |-> name, bound |-> bound]

\* what a byte of Buffer.allocUnsafe may hold
UninitBytes == {"?", "~"}

\* req.body: undefined, a Buffer, or the value JSON.parse gave
NoReqBody     == [kind |-> "undefined", bytes |-> <<>>, val |-> Undefined]
BufferBody(b) == [kind |-> "buffer", bytes |-> b, val |-> Undefined]
JsonBody(v)   == [kind |-> "json", bytes |-> <<>>, val |-> v]

\* the request slot without a request.  on = the built-in functions that listen to
\* 'data' and 'end', in the order they attached; jsonThis = the `this` of the listeners
\* of midApiReqBodyJson is the server; crashed = a listener threw out of the event
NoBq ==
    [pc            |-> "idle",   \* "idle", "apiMid" (await #midCall), "done", "failed"
     method        |-> "",
     url           |-> <<>>,
     contentType   |-> "",
     contentLength |-> <<>>,
     chunks        |-> <<>>,     \* the chunks of the body still to arrive
     sent          |-> <<>>,     \* ghost: the bytes that arrived
     ended         |-> FALSE,    \* 'end' was emitted
     on            |-> <<>>,
     jsonThis      |-> FALSE,
     jsonText      |-> <<>>,     \* body.join('') so far
     jsonBytes     |-> 0,
     reqBody       |-> NoReqBody,
     rejected      |-> FALSE,    \* a promise of the group is rejected
     destroyed     |-> FALSE,
     crashed       |-> FALSE,
     status        |-> 0,        \* the status the listener answered with (404) or 0
     handler       |-> NoHandler,
     handled       |-> 0,        \* calls of the route handler
     seen          |-> NoReqBody]    \* ghost: req.body when the handler was called

\* midApiReqBodyOther, line 147: this.#types throws when `this` is undefined; else the
\* function skips the content types of this.#types and reads the others
OtherSkips(bound, ct) ==
    IF ~bound THEN "throws" ELSE IF ct \in types THEN "skips" ELSE "reads"

\* mid(req, res) for a built-in body function, up to its return or first await
BodyCall(q, f, junk) ==
    IF f.fn = BodyJson
    THEN IF q.contentType # ApplicationJson THEN q
         ELSE [q EXCEPT !.on = Append(@, BodyJson), !.jsonThis = f.bound]
    ELSE LET skip == OtherSkips(f.bound, q.contentType)
             n    == ParseInt(q.contentLength)
         IN  IF skip = "throws" THEN [q EXCEPT !.rejected = TRUE]
             ELSE IF skip = "skips" THEN q
             ELSE [q EXCEPT !.reqBody =
                               BufferBody(AsSeq(AllocUnsafe(IF n = NaN THEN 0 ELSE n, junk))),
                            !.on = Append(@, BodyOther)]

RECURSIVE BodyCallGroup(_, _, _, _)
BodyCallGroup(q, fns, i, junk) ==
    IF i > Len(fns) THEN q
    ELSE BodyCallGroup(BodyCall(q, fns[i], junk), fns, i + 1, junk)

\* handler(req, res) of line 886
BodyHandler(q) ==
    [q EXCEPT !.handled = @ + 1, !.seen = q.reqBody, !.pc = "done"]

\* `await this.#midCall(...)` for the one group g: a sync group is not waited for; the
\* Promise.all of a concurrent group rejects when one promise is rejected and waits
\* while a function listens for the 'end' of the body
BodyMidCall(q, junk) ==
    IF Len(middlewareApi) = 0 THEN BodyHandler(q)
    ELSE LET q1 == BodyCallGroup(q, midNames[1], 1, junk)
         IN  IF middlewareApi[1].sync THEN BodyHandler(q1)
             ELSE IF q1.rejected THEN [q1 EXCEPT !.pc = "failed"]
             ELSE IF q1.on # <<>> THEN [q1 EXCEPT !.pc = "apiMid"]
             ELSE BodyHandler(q1)

\* the listener for a request to a server that serves no files
BodyListener(q0, junk) ==
    IF q0.contentType # "" /\ q0.contentType \notin (types \cup options.types)
    THEN [q0 EXCEPT !.destroyed = TRUE, !.pc = "done"]
    ELSE IF TooLarge(q0) THEN [q0 EXCEPT !.destroyed = TRUE, !.pc = "done"]
    ELSE LET url == StripSlash(CutAtQuery(q0.url, 1))
             q1  == [q0 EXCEPT !.url = url]
             r   == GetRoute(routes, urlVar, q1.method, url)
         IN  IF q1.method \notin methods \/ r.handler = NoHandler
             THEN [q1 EXCEPT !.status = 404, !.pc = "done"]
             ELSE BodyMidCall([q1 EXCEPT !.handler = r.handler], junk)

\* the 'data' listener of midApiReqBodyJson (lines 123-128) for one chunk
JsonOnData(q, chunk) ==
    IF options.maxBodySize # NoMax /\ q.jsonBytes + Len(chunk) > options.maxBodySize
    THEN IF q.jsonThis THEN [q EXCEPT !.destroyed = TRUE]    \* this.#handleStopHttp
         ELSE [q EXCEPT !.crashed = TRUE]                    \* TypeError: this is undefined
    ELSE [q EXCEPT !.jsonText = @ \o chunk, !.jsonBytes = @ + Len(chunk)]

\* the 'data' listener of midApiReqBodyOther (lines 156-160): the name maxBodySize is
\* declared nowhere, its evaluation throws a ReferenceError
OtherOnData(q, chunk) == [q EXCEPT !.crashed = TRUE]

\* req.emit('data', chunk): the listeners in the order they attached; a listener that
\* throws ends the emit
RECURSIVE EmitData(_, _, _)
EmitData(q, chunk, i) ==
    IF i > Len(q.on) \/ q.crashed THEN q
    ELSE EmitData(IF q.on[i] = BodyJson THEN JsonOnData(q, chunk)
                  ELSE OtherOnData(q, chunk),
                  chunk, i + 1)

\* server.midApiSync(...fns) / server.midApiAsync(...fns) with built-in body functions;
\* #implicitlyAddTypes knows midApiReqBodyJson by identity, so not its bound copy
MidApiBody(sync, fns) ==
    /\ IF sync THEN MidApiSync(Len(fns)) ELSE MidApiAsync(Len(fns))
    /\ midNames' = Append(midNames, fns)
    /\ types' = IF Fn(BodyJson, FALSE) \in { fns[i] : i \in 1..Len(fns) }
                THEN types \cup {ApplicationJson} ELSE types
    /\ UNCHANGED <<prefix, options, dir, index, indexAbsolute, notFound, cacheEnabled,
                   cache, middlewareFile, disk, rq, filesCall, served, cacheCall>>
    /\ UNCHANGED <<soups, sq, bq>>

\* a request arrives and the listener runs for it
BodyArrive(request) ==
    /\ listening
    /\ bq.pc = "idle"
    /\ \E junk \in UninitBytes :
          bq' = BodyListener([NoBq EXCEPT !.pc = "run", !.method = request.method,
                                          !.url = request.url,
                                          !.contentType = request.contentType,
                                          !.contentLength = request.contentLength,
                                          !.chunks = request.chunks],
                             junk)
    /\ UNCHANGED <<midNames, soups, sq>>

\* the next chunk of the body arrives: the stream flows once a 'data' listener is there
BodyData ==
    /\ bq.pc # "idle" /\ ~bq.destroyed /\ ~bq.crashed
    /\ bq.on # <<>>
    /\ bq.chunks # <<>>
    /\ bq' = [EmitData(bq, Head(bq.chunks), 1) EXCEPT !.chunks = Tail(bq.chunks),
                                                       !.sent = @ \o Head(bq.chunks)]
    /\ UNCHANGED <<midNames, soups, sq>>

\* 'end': the listener of midApiReqBodyJson parses and resolves, the one of
\* midApiReqBodyOther resolves; a listener that awaits the group calls the handler
BodyEnd ==
    LET q1 == [bq EXCEPT !.ended = TRUE,
                         !.reqBody = IF \E i \in 1..Len(bq.on) : bq.on[i] = BodyJson
                                     THEN JsonBody(ParsedBody(bq.jsonText)) ELSE @]
    IN  /\ bq.pc # "idle" /\ ~bq.destroyed /\ ~bq.crashed
        /\ bq.on # <<>>
        /\ bq.chunks = <<>> /\ ~bq.ended
        /\ bq' = IF bq.pc = "apiMid" THEN BodyHandler(q1) ELSE q1
        /\ UNCHANGED <<midNames, soups, sq>>

\* the request is over: the slot takes the next one.  After a throw out of an event
\* the process is gone.
BodyRelease ==
    /\ ~bq.crashed
    /\ bq.pc \in {"done", "failed"} \/ bq.destroyed
    /\ bq.pc # "idle"
    /\ bq.on = <<>> \/ bq.ended \/ bq.destroyed
    /\ bq' = NoBq
    /\ UNCHANGED <<midNames, soups, sq>>

SoupsIdle ==
    /\ midNames = <<>>
    /\ soups = <<>>
    /\ sq = [r \in Reqs |-> NoSq]
    /\ bq = NoBq

RouterIdle ==
    /\ routes = (Root :> NewNode)
    /\ methods = {}
    /\ hist = <<>>
    /\ rreq = NoReq
    /\ rres = NoRes

HttpIdle ==
    /\ listening = FALSE
    /\ middlewareApi = <<>>
    /\ lpc = "idle"
    /\ req = NoReq
    /\ finished = FALSE
    /\ statusCode = 0
    /\ mpc = [st |-> "none", g |-> 0, i |-> 0]
    /\ fst = <<>>
    /\ calls = <<>>
    /\ handler = NoHandler
    /\ handlerCalls = 0
    /\ nSusp = 0
    /\ finalizedBy = Nobody

WsIdle ==
    /\ wsData = <<>>
    /\ wsMask = <<0, 0, 0, 0>>
    /\ wsFrame = <<>>
    /\ wsWire = <<>>
    /\ socket = [error |-> "null", hadError |-> "null", message |-> NullMessage]
    /\ wsPc = "idle"
    /\ wsOn = {}
    /\ onlyWss = FALSE
    /\ conn = NoConn
    /\ wsLog = <<>>

SendIdle == wsOut = [k \in Sockets |-> <<>>]

\* listen() without options
DefaultOptions == [types |-> {}, maxBodySize |-> NoMax, onlyHttps |-> FALSE]

FilesIdle ==
    /\ types = {}
    /\ options = DefaultOptions
    /\ dir = NoPath
    /\ index = NoPath
    /\ indexAbsolute = FALSE
    /\ notFound = NoPath
    /\ cacheEnabled = FALSE
    /\ cache = <<>>
    /\ middlewareFile = <<>>
    /\ rq = [r \in Reqs |-> NoRq]
    /\ filesCall = [n |-> 0, dir |-> NoPath, threw |-> FALSE]
    /\ served = <<>>
    /\ cacheCall = [op |-> "none", before |-> <<>>]

(***************************************************************************)
(* SpecRouter: the router on its own                                       *)
(***************************************************************************)
InitRouter ==
    /\ urlVar \in BOOLEAN
    /\ RouterIdle
    /\ HttpIdle
    /\ SendIdle
    /\ FilesIdle
    /\ SoupsIdle
    /\ prefix = TRUE
    /\ disk = <<>>
    /\ WsIdle

NextRouter ==
    \/ \E m \in Methods, u \in RegUrls :
          /\ Len(hist) < MaxRoutes
          /\ ~rreq.valid           \* routes are registered before requests are served
          /\ Api(m, u)
          /\ UNCHANGED <<httpVars, wsVars, sendVars, fileVars, soupVars>>
    \/ \E m \in Methods, u \in ReqUrls :
          /\ Resolve(m, u)
          /\ UNCHANGED <<httpVars, wsVars, sendVars, fileVars, soupVars>>

SpecRouter == InitRouter /\ [][NextRouter]_vars

(***************************************************************************)
(* Spec: setup, then one request through the listener                      *)
(***************************************************************************)
Init ==
    /\ urlVar = TRUE
    /\ RouterIdle
    /\ HttpIdle
    /\ SendIdle
    /\ FilesIdle
    /\ SoupsIdle
    /\ prefix = TRUE
    /\ disk = <<>>
    /\ WsIdle

Next ==
    \/ \E m \in {"GET"}, u \in HttpRegUrls :
          /\ ~\E k \in 1..Len(hist) : hist[k].method = m /\ hist[k].url = u
          /\ Api(m, u)
          /\ UNCHANGED <<httpVars, wsVars, sendVars, fileVars, soupVars>>
    \/ \E n \in 0..MaxFns :
          /\ Len(middlewareApi) < MaxGroups
          /\ NumFns(middlewareApi) + n <= MaxFns
          /\ MidApiAsync(n)
          /\ UNCHANGED <<routerVars, wsVars, sendVars, fileVars, soupVars>>
    \/ \E n \in 0..MaxFns :
          /\ Len(middlewareApi) < MaxGroups
          /\ NumFns(middlewareApi) + n <= MaxFns
          /\ MidApiSync(n)
          /\ UNCHANGED <<routerVars, wsVars, sendVars, fileVars, soupVars>>
    \/ Listen /\ UNCHANGED <<routerVars, wsVars, sendVars, fileVars, soupVars>>
    \/ \E m \in Methods, u \in HttpReqUrls :
          Listener(m, u) /\ UNCHANGED <<routerVars, wsVars, sendVars, fileVars, soupVars>>
    \/ MidGroupHead /\ UNCHANGED <<routerVars, wsVars, sendVars, fileVars, soupVars>>
    \/ MidInvoke /\ UNCHANGED <<routerVars, wsVars, sendVars, fileVars, soupVars>>
    \/ \E f \in DOMAIN fst : MidResume(f) /\ UNCHANGED <<routerVars, wsVars, sendVars, fileVars, soupVars>>
    \/ MidJoin /\ UNCHANGED <<routerVars, wsVars, sendVars, fileVars, soupVars>>
    \/ ListenerResume /\ UNCHANGED <<routerVars, wsVars, sendVars, fileVars, soupVars>>

Spec == Init /\ [][Next]_vars

(***************************************************************************)
(* Router claims                                                           *)
(***************************************************************************)
IsVarPart(p) == MatchVar(p).ok

RouteParts(k) == UrlParts(hist[k].url)

\* the concrete path fits the route: same number of segments, equal at the static ones
Matches(path, route) ==
    /\ Len(path) = Len(route)
    /\ \A i \in 1..Len(route) : IsVarPart(route[i]) \/ route[i] = path[i]

\* routes p and q reach position i along the same branch of the tree
SamePosition(p, q, i) ==
    \A j \in 1..(i - 1) :
        \/ IsVarPart(p[j]) /\ IsVarPart(q[j])
        \/ ~IsVarPart(p[j]) /\ ~IsVarPart(q[j]) /\ p[j] = q[j]

\* one of p, q has a variable and the other a static segment at the same tree position
Ambiguous(p, q) ==
    \E i \in 1..Len(p) :
        /\ i <= Len(q)
        /\ SamePosition(p, q, i)
        /\ IsVarPart(p[i]) # IsVarPart(q[i])

NoAmbiguity ==
    \A k, l \in 1..Len(hist) : ~Ambiguous(RouteParts(k), RouteParts(l))

\* registration k is the one a look-up of the request must find: among the registrations
\* of the request's method that fit the path, all are of k's route and k is the last
TheMatch(k) ==
    /\ hist[k].method = rreq.method
    /\ Matches(UrlParts(rreq.url), RouteParts(k))
    /\ \A l \in 1..Len(hist) :
          (hist[l].method = rreq.method /\ Matches(UrlParts(rreq.url), RouteParts(l)))
              => (RouteParts(l) = RouteParts(k) /\ l <= k)

\* C1 (as claimed): with the delimiter pattern configured and no variable-versus-static
\* ambiguity among the registered routes, a look-up of a concrete path that fits a
\* registered route returns the handler registered for that method and route, and
\* req.vars maps each variable of the route to the segment at its position.
C1_ResolveRegistered ==
    (urlVar /\ rreq.valid /\ NoAmbiguity) =>
        \A k \in 1..Len(hist) :
            TheMatch(k) =>
                /\ rres.handler = hist[k].fn
                /\ \A i \in 1..Len(RouteParts(k)) :
                      IsVarPart(RouteParts(k)[i]) =>
                          LET name == MatchVar(RouteParts(k)[i]).name
                          IN  /\ name \in DOMAIN rres.vars
                              /\ rres.vars[name] = UrlParts(rreq.url)[i]

\* position i of the looked-up path is static: the map reached after i - 1 segments
\* carries no variable name
StaticAt(i) == routes[SubSeq(rres.node, 1, i - 1)].var = NoVar

\* C2: a look-up returns no handler (a) when no api() call registered the request's
\* method on the map the path ends at, and (b, c) unless some registered route of that
\* method has as many segments as the path and equals it at every static position.
C2_NotFound ==
    rreq.valid =>
        /\ (rres.found /\ ~\E k \in 1..Len(hist) :
                              hist[k].node = rres.node /\ hist[k].method = rreq.method)
              => rres.handler = NoHandler
        /\ rres.handler # NoHandler =>
              \E k \in 1..Len(hist) :
                  /\ hist[k].method = rreq.method
                  /\ Len(RouteParts(k)) = Len(UrlParts(rreq.url))
                  /\ urlVar => \A i \in 1..Len(RouteParts(k)) :
                                  StaticAt(i) => RouteParts(k)[i] = UrlParts(rreq.url)[i]
                  /\ ~urlVar => hist[k].url = rreq.url

\* C2 witness: a path that ends at a map some route was registered on, looked up with a
\* method nobody registered there, and answered with no handler
C2_Witness ==
    /\ rreq.valid /\ rres.found /\ rres.handler = NoHandler
    /\ \E k \in 1..Len(hist) : hist[k].node = rres.node /\ hist[k].method # rreq.method
    /\ Len(UrlParts(rreq.url)) = 2

\* this.#routes of a server with (uv) or without the delimiter pattern after the first
\* k api() calls of hist
RECURSIVE RoutesAfter(_, _)
RoutesAfter(uv, k) ==
    IF k = 0 THEN (Root :> NewNode)
    ELSE SetRoute(RoutesAfter(uv, k - 1), uv, hist[k].method, hist[k].url, hist[k].fn).routes

\* C19 (as claimed): when no registered route has a variable segment, a look-up gives
\* the same handler, or not-found in both, on a server without the delimiter pattern
\* and on a server with it.
C19_StaticSameAsTrie ==
    (rreq.valid /\ \A k \in 1..Len(hist) : \A i \in 1..Len(RouteParts(k)) :
                      ~IsVarPart(RouteParts(k)[i]))
        => GetRoute(RoutesAfter(TRUE, Len(hist)), TRUE, rreq.method, rreq.url).handler
             = GetRoute(RoutesAfter(FALSE, Len(hist)), FALSE, rreq.method, rreq.url).handler

\* C20 (as claimed): two routes with a variable at the same tree position go through one
\* node at that position, whatever the names of the variables, and the map above it
\* carries the name registered last.
C20_SharedVarNode ==
    urlVar =>
        \A k, l \in 1..Len(hist) :
            \A i \in 1..Len(RouteParts(k)) :
                (/\ k < l
                 /\ i <= Len(RouteParts(l))
                 /\ SamePosition(RouteParts(k), RouteParts(l), i)
                 /\ IsVarPart(RouteParts(k)[i]) /\ IsVarPart(RouteParts(l)[i]))
                    => SubSeq(hist[k].node, 1, i) = SubSeq(hist[l].node, 1, i)

\* registration k goes through position i below the map `above`
PassesAt(k, above, i) ==
    /\ i <= Len(RouteParts(k))
    /\ SubSeq(hist[k].node, 1, i - 1) = above

\* C30 (as claimed): where a static and a variable segment were both registered at one
\* tree position, the registration made last fixes how the position is matched: the map
\* above it carries the variable's name when the last one is a variable, and no
\* variable designation when the last one is static.
C30_LastRegistrationWins ==
    urlVar =>
        \A l \in 1..Len(hist) :
            \A i \in 1..Len(RouteParts(l)) :
                LET above == SubSeq(hist[l].node, 1, i - 1)
                    p     == RouteParts(l)[i]
                IN  (/\ \A m \in 1..Len(hist) : m > l => ~PassesAt(m, above, i)
                     /\ \E k \in 1..Len(hist) :
                           /\ k < l
                           /\ PassesAt(k, above, i)
                           /\ IsVarPart(RouteParts(k)[i]) # IsVarPart(p))
                        => routes[above].var = (IF IsVarPart(p) THEN MatchVar(p).name
                                                ELSE NoVar)

(***************************************************************************)
(* SpecWs: a payload is encoded, masked by the peer and decoded            *)
(***************************************************************************)
InitWs ==
    /\ urlVar = TRUE
    /\ RouterIdle
    /\ HttpIdle
    /\ SendIdle
    /\ FilesIdle
    /\ SoupsIdle
    /\ prefix = TRUE
    /\ disk = <<>>
    /\ wsData \in Payloads
    /\ wsMask \in Masks
    /\ wsFrame = <<>>
    /\ wsWire = <<>>
    /\ socket = [error |-> "null", hadError |-> "null", message |-> NullMessage]
    /\ wsPc = "idle"
    /\ wsOn = {}
    /\ onlyWss = FALSE
    /\ conn = NoConn
    /\ wsLog = <<>>

NextWs ==
    \/ WsEncode /\ UNCHANGED <<routerVars, httpVars, sendVars, fileVars, soupVars>>
    \/ ClientSend /\ UNCHANGED <<routerVars, httpVars, sendVars, fileVars, soupVars>>
    \/ WsOnData /\ UNCHANGED <<routerVars, httpVars, sendVars, fileVars, soupVars>>

SpecWs == InitWs /\ [][NextWs]_vars

(***************************************************************************)
(* SpecSend: a payload is sent to the open sockets, framed by socket.send  *)
(* or framed once by socket.encode and sent as it is                       *)
(***************************************************************************)
InitSend ==
    /\ InitWs
    /\ wsMask = <<0, 0, 0, 0>>

NextSend ==
    \/ WsEncode /\ UNCHANGED <<routerVars, httpVars, sendVars, fileVars, soupVars>>
    \/ \E k \in Sockets, c \in SendCalls :
          /\ Len(wsOut[k]) < MaxSends
          /\ WsSend(k, c[1], c[2])
          /\ UNCHANGED <<routerVars, httpVars, fileVars, soupVars>>

SpecSend == InitSend /\ [][NextSend]_vars

(***************************************************************************)
(* SpecSetup: files() calls on a new server                                *)
(***************************************************************************)
InitSetup == Init

NextSetup ==
    \E cfg \in FilesCfgs :
        /\ filesCall.n < MaxFilesCalls
        /\ Files(cfg)
        /\ UNCHANGED <<routerVars, httpVars, wsVars, sendVars, soupVars>>

SpecSetup == InitSetup /\ [][NextSetup]_vars

(***************************************************************************)
(* SpecFiles: setup (files, midFile*, midApiAsync, api, listen), then      *)
(* requests, one at a time, through the listener of a server that may      *)
(* serve files                                                             *)
(***************************************************************************)
Public == <<"p">>                                   \* dir: 'public'
PubDir == Cwd \o <<"/">> \o Public

uF    == <<"/", "f", ".", "j">>                     \* /f.j, a file of the directory
uG    == <<"/", "g", ".", "j">>                     \* /g.j, no such file
uRoot == <<"/">>
uApiX == ApiPrefix \o <<"x">>                       \* /api/x
uApiQ == uApiX \o <<"?", "q">>                      \* /api/x?q
uApi  == ApiPrefix                                  \* /api/

\* the file systems: with and without the index page, the not-found page and a file
\* below api/x
Disks ==
    { (PubDir \o uF :> "v1") @@ (PubDir \o <<"/">> \o IndexHtml :> "ix")
          @@ (PubDir \o <<"/">> \o NotFoundHtml :> "nf")
          @@ (PubDir \o uApiX \o <<"/">> \o IndexHtml :> "ax"),
      (PubDir \o uF :> "v1") }

ServeCfgs ==
    [cache : BOOLEAN, dir : {Public}, index : {IndexHtml}, notFound : {NotFoundHtml, NotAString}]

TextPlain == "text/plain"
ImagePng  == "image/png"

ListenOptions ==
    { DefaultOptions,
      [DefaultOptions EXCEPT !.types = {TextPlain}],
      [DefaultOptions EXCEPT !.maxBodySize = 10],
      [DefaultOptions EXCEPT !.onlyHttps = TRUE],
      [types |-> {TextPlain}, maxBodySize |-> 10, onlyHttps |-> TRUE] }

PlainGet ==
    [method |-> "GET", url |-> uF, host |-> "h", contentType |-> "",
     contentLength |-> <<>>, encrypted |-> FALSE]

Requests ==
    { [PlainGet EXCEPT !.url = u] : u \in {uF, uG, uRoot, uApiX, uApiQ, uApi} }
    \cup { [PlainGet EXCEPT !.method = "POST", !.url = uApiX] }
    \cup { [PlainGet EXCEPT !.encrypted = TRUE, !.url = u] : u \in {uF, uApiQ} }
    \cup { [PlainGet EXCEPT !.contentType = t] : t \in {TextPlain, ImagePng} }
    \cup { [PlainGet EXCEPT !.contentLength = n] : n \in {<<"5">>, <<"2", "0">>, <<"x">>} }
    \cup { [PlainGet EXCEPT !.contentType = TextPlain, !.contentLength = <<"2", "0">>,
                            !.url = uApiX] }

InitFiles ==
    /\ urlVar = TRUE
    /\ RouterIdle
    /\ HttpIdle
    /\ WsIdle
    /\ SendIdle
    /\ FilesIdle
    /\ SoupsIdle
    /\ prefix \in BOOLEAN
    /\ disk \in Disks

NextFiles ==
    \/ \E cfg \in ServeCfgs :
          /\ filesCall.n = 0
          /\ Files(cfg)
          /\ UNCHANGED <<routerVars, httpVars, wsVars, sendVars, soupVars>>
    \/ \E n \in 0..1 :
          /\ middlewareFile = <<>>
          /\ MidFileAsync(n)
          /\ UNCHANGED <<routerVars, httpVars, wsVars, sendVars, soupVars>>
    \/ \E n \in 0..1 :
          /\ middlewareFile = <<>>
          /\ MidFileSync(n)
          /\ UNCHANGED <<routerVars, httpVars, wsVars, sendVars, soupVars>>
    \/ /\ middlewareApi = <<>>
       /\ MidApiAsync(1)
       /\ UNCHANGED <<routerVars, wsVars, sendVars, fileVars, soupVars>>
    \/ /\ hist = <<>>
       /\ Api("GET", uApiX)
       /\ UNCHANGED <<httpVars, wsVars, sendVars, fileVars, soupVars>>
    \/ \E o \in ListenOptions :
          /\ ListenWith(o)
          /\ UNCHANGED <<routerVars, wsVars, sendVars, soupVars>>
    \/ \E request \in Requests, h \in BOOLEAN :
          /\ Arrive(1, request, h)
          /\ UNCHANGED <<routerVars, httpVars, wsVars, sendVars, soupVars>>
    \/ \E fin, threw, h \in BOOLEAN :
          /\ MidReturn(1, fin, threw, h)
          /\ UNCHANGED <<routerVars, httpVars, wsVars, sendVars, soupVars>>
    \/ /\ Release(1)
       /\ UNCHANGED <<routerVars, httpVars, wsVars, sendVars, soupVars>>

SpecFiles == InitFiles /\ [][NextFiles]_vars

(***************************************************************************)
(* SpecCache: a server that serves files; two requests at a time, the      *)
(* cache calls, and a file system that changes                             *)
(***************************************************************************)
fF == PubDir \o uF                                  \* public/f.j
fN == PubDir \o <<"/">> \o NotFoundHtml             \* public/404.html

InitCache ==
    /\ urlVar = TRUE
    /\ RouterIdle
    /\ HttpIdle
    /\ WsIdle
    /\ SendIdle
    /\ FilesIdle
    /\ SoupsIdle
    /\ prefix = TRUE
    /\ disk = (fF :> "v1") @@ (fN :> "nf")

NextCache ==
    \/ \E c \in BOOLEAN :
          /\ filesCall.n = 0
          /\ Files([cache |-> c, dir |-> Public, index |-> IndexHtml,
                    notFound |-> NotFoundHtml])
          /\ UNCHANGED <<routerVars, httpVars, wsVars, sendVars, soupVars>>
    \/ /\ middlewareFile = <<>>
       /\ MidFileAsync(1)
       /\ UNCHANGED <<routerVars, httpVars, wsVars, sendVars, soupVars>>
    \/ /\ dir # NoPath
       /\ middlewareFile # <<>>
       /\ ListenWith(DefaultOptions)
       /\ UNCHANGED <<routerVars, wsVars, sendVars, soupVars>>
    \/ \E r \in Reqs, u \in {uF, uG} :
          /\ Arrive(r, [PlainGet EXCEPT !.url = u], FALSE)
          /\ UNCHANGED <<routerVars, httpVars, wsVars, sendVars, soupVars>>
    \/ \E r \in Reqs :
          /\ MidReturn(r, FALSE, FALSE, FALSE)
          /\ UNCHANGED <<routerVars, httpVars, wsVars, sendVars, soupVars>>
    \/ \E r \in Reqs :
          /\ Release(r)
          /\ UNCHANGED <<routerVars, httpVars, wsVars, sendVars, soupVars>>
    \/ /\ listening
       /\ CacheClear
       /\ UNCHANGED <<routerVars, httpVars, wsVars, sendVars, soupVars>>
    \/ /\ listening
       /\ CacheDisable
       /\ UNCHANGED <<routerVars, httpVars, wsVars, sendVars, soupVars>>
    \/ /\ listening
       /\ CacheEnable
       /\ UNCHANGED <<routerVars, httpVars, wsVars, sendVars, soupVars>>
    \/ /\ listening
       /\ CacheRefresh
       /\ UNCHANGED <<routerVars, httpVars, wsVars, sendVars, soupVars>>
    \/ \E v \in {"v1", "v2"} :
          /\ listening
          /\ DiskWrite(fF, v)
          /\ UNCHANGED <<routerVars, httpVars, wsVars, sendVars, soupVars>>
    \/ /\ listening
       /\ DiskDelete(fF)
       /\ UNCHANGED <<routerVars, httpVars, wsVars, sendVars, soupVars>>

SpecCache == InitCache /\ [][NextCache]_vars

(***************************************************************************)
(* SpecSoups: the documented example.  Setup is the registration of the    *)
(* three built-in functions in one group and the three api() calls, then   *)
(* listen(); two requests at a time.                                       *)
(***************************************************************************)
jNameT     == <<"{", Q>> \o tName \o <<Q, ":", Q, "T", Q, "}">>      \* {"name":"T"}
jNameIdM   == <<"{", Q>> \o tId \o <<Q, ":", "7", ",", Q>> \o tName
              \o <<Q, ":", Q, "M", Q, "}">>                          \* {"id":7,"name":"M"}
jEmptyName == <<"{", Q>> \o tName \o <<Q, ":", Q, Q, "}">>           \* {"name":""}
jNoName    == <<"{", "}">>                                           \* {}
jBroken    == <<"{", Q>> \o tName \o <<Q, ":">>                      \* {"name":
jLeadZero  == <<"{", Q>> \o tId \o <<Q, ":", "0", "1", "}">>         \* {"id":01}
jNothing   == <<>>                                                   \* no body at all

SoupIds == { <<"0">>, <<"1">>, <<"9", "9">>, <<"x">> }

SoupRequests ==
    { [method |-> "POST", url |-> uSoups, contentType |-> ApplicationJson, raw |-> b] :
          b \in {jNameT, jNameIdM, jEmptyName, jNoName, jBroken, jLeadZero, jNothing} }
    \cup { [method |-> "POST", url |-> uSoups, contentType |-> "", raw |-> jNameT],
           [method |-> "GET", url |-> uSoups, contentType |-> "", raw |-> <<>>] }
    \cup { [method |-> "GET", url |-> uSoups \o <<"/">> \o t, contentType |-> "",
            raw |-> <<>>] : t \in SoupIds }

InitSoups ==
    /\ urlVar = TRUE
    /\ RouterIdle
    /\ HttpIdle
    /\ WsIdle
    /\ SendIdle
    /\ FilesIdle
    /\ SoupsIdle
    /\ prefix = TRUE
    /\ disk = <<>>

NextSoups ==
    \/ \E sync \in BOOLEAN :
          /\ middlewareApi = <<>>
          /\ MidApiBuiltins(sync)
          /\ UNCHANGED <<routerVars, wsVars, sendVars>>
    \/ /\ Len(hist) = 0
       /\ Api("POST", uSoups)
       /\ UNCHANGED <<httpVars, wsVars, sendVars, fileVars, soupVars>>
    \/ /\ Len(hist) = 1
       /\ Api("GET", uSoups)
       /\ UNCHANGED <<httpVars, wsVars, sendVars, fileVars, soupVars>>
    \/ /\ Len(hist) = 2
       /\ Api("GET", uSoupVar)
       /\ UNCHANGED <<httpVars, wsVars, sendVars, fileVars, soupVars>>
    \/ /\ Len(hist) = 3
       /\ middlewareApi # <<>>
       /\ ListenWith(DefaultOptions)
       /\ UNCHANGED <<routerVars, wsVars, sendVars, soupVars>>
    \/ \E r \in Reqs, request \in SoupRequests :
          /\ SoupsArrive(r, request)
          /\ UNCHANGED <<routerVars, httpVars, wsVars, sendVars, fileVars>>
    \/ \E r \in Reqs :
          /\ SoupsBodyEnd(r)
          /\ UNCHANGED <<routerVars, httpVars, wsVars, sendVars, fileVars>>
    \/ \E r \in Reqs :
          /\ SoupsRelease(r)
          /\ UNCHANGED <<routerVars, httpVars, wsVars, sendVars, fileVars>>

SpecSoups == InitSoups /\ [][NextSoups]_vars

(***************************************************************************)
(* SpecBody: built-in body middleware, one route, listen(options),         *)
(* requests with a body in chunks                                          *)
(***************************************************************************)
MaxBody == 4                \* the options.maxBodySize of the servers that set one

tHi  == <<"h", "i", "!">>   \* a text/plain body
jObj == <<"{", "}">>        \* {}

\* the arguments of the one midApiSync / midApiAsync call
BodyRegs ==
    { <<Fn(BodyJson, FALSE)>>,
      <<Fn(BodyOther, FALSE)>>,
      <<Fn(BodyJson, FALSE), Fn(BodyOther, FALSE)>>,
      <<Fn(BodyJson, TRUE)>>,
      <<Fn(BodyOther, TRUE)>>,
      <<Fn(BodyJson, FALSE), Fn(BodyOther, TRUE)>>,
      <<Fn(BodyJson, TRUE), Fn(BodyOther, TRUE)>> }

BodyOptions ==
    { [types |-> t, maxBodySize |-> m, onlyHttps |-> FALSE] :
        t \in {{TextPlain}, {TextPlain, ApplicationJson}}, m \in {NoMax, MaxBody} }

\* the splits of a body into chunks
Chunkings(b) ==
    {<<b>>} \cup { <<SubSeq(b, 1, k), SubSeq(b, k + 1, Len(b))>> : k \in 1..(Len(b) - 1) }

\* the body, in chunks, and the Content-Length header: absent, accurate, 1 or 9
Streams ==
    { [chunks |-> c, contentLength |-> l] :
        c \in {<<>>} \cup Chunkings(tHi) \cup Chunkings(jObj)
                \cup {<<jNameT>>, <<SubSeq(jNameT, 1, 3), SubSeq(jNameT, 4, Len(jNameT))>>},
        l \in {<<>>, <<"1">>, <<"9">>} }
    \cup UNION { { [chunks |-> c, contentLength |-> Decimal(Len(b))] : c \in Chunkings(b) } :
                   b \in {tHi, jObj} }

BodyRequests ==
    { [method |-> "POST", url |-> uSoups, contentType |-> ct,
       contentLength |-> s.contentLength, chunks |-> s.chunks] :
        ct \in {"", TextPlain, ApplicationJson}, s \in Streams }
    \cup { [method |-> "GET", url |-> uSoups, contentType |-> "",
            contentLength |-> <<>>, chunks |-> <<>>] }

InitBody ==
    /\ urlVar = TRUE
    /\ RouterIdle
    /\ HttpIdle
    /\ WsIdle
    /\ SendIdle
    /\ FilesIdle
    /\ SoupsIdle
    /\ prefix = TRUE
    /\ disk = <<>>

NextBody ==
    \/ \E sync \in BOOLEAN, fns \in BodyRegs :
          /\ middlewareApi = <<>>
          /\ MidApiBody(sync, fns)
          /\ UNCHANGED <<routerVars, wsVars, sendVars>>
    \/ /\ Len(hist) = 0
       /\ Api("POST", uSoups)
       /\ UNCHANGED <<httpVars, wsVars, sendVars, fileVars, soupVars>>
    \/ \E o \in BodyOptions :
          /\ Len(hist) = 1
          /\ ListenWith(o)
          /\ UNCHANGED <<routerVars, wsVars, sendVars, soupVars>>
    \/ \E request \in BodyRequests :
          /\ BodyArrive(request)
          /\ UNCHANGED <<routerVars, httpVars, wsVars, sendVars, fileVars>>
    \/ /\ BodyData
       /\ UNCHANGED <<routerVars, httpVars, wsVars, sendVars, fileVars>>
    \/ /\ BodyEnd
       /\ UNCHANGED <<routerVars, httpVars, wsVars, sendVars, fileVars>>
    \/ /\ BodyRelease
       /\ UNCHANGED <<routerVars, httpVars, wsVars, sendVars, fileVars>>

SpecBody == InitBody /\ [][NextBody]_vars

(***************************************************************************)
(* SpecSocket: ws() calls, listen(), one upgrade request, socket events    *)
(***************************************************************************)
InitSocket ==
    /\ urlVar = TRUE
    /\ RouterIdle
    /\ HttpIdle
    /\ SendIdle
    /\ FilesIdle
    /\ SoupsIdle
    /\ prefix = TRUE
    /\ disk = <<>>
    /\ wsData = <<>>
    /\ wsMask = <<0, 0, 0, 0>>
    /\ wsFrame = <<>>
    /\ wsWire = <<>>
    /\ socket = Nulls
    /\ wsPc = "idle"
    /\ wsOn = {}
    /\ onlyWss \in BOOLEAN
    /\ conn = NoConn
    /\ wsLog = <<>>

NextSocket ==
    \/ \E e \in WsEvents : Ws(e) /\ UNCHANGED <<routerVars, httpVars, sendVars, fileVars, soupVars>>
    \/ /\ Listen
       /\ UNCHANGED <<routerVars, wsVars, sendVars, fileVars, soupVars>>
    \/ \E enc \in BOOLEAN : OnUpgrade(enc) /\ UNCHANGED <<routerVars, httpVars, sendVars, fileVars, soupVars>>
    \/ \E c \in RawChunks :
          /\ Len(wsLog) < MaxEvents
          /\ SockData(c)
          /\ UNCHANGED <<routerVars, httpVars, sendVars, fileVars, soupVars>>
    \/ /\ Len(wsLog) < MaxEvents
       /\ SockError
       /\ UNCHANGED <<routerVars, httpVars, sendVars, fileVars, soupVars>>
    \/ \E h \in {"true", "false"} : SockClose(h) /\ UNCHANGED <<routerVars, httpVars, sendVars, fileVars, soupVars>>

SpecSocket == InitSocket /\ [][NextSocket]_vars

(***************************************************************************)
(* Middleware claims                                                       *)
(***************************************************************************)
IsSync(f) == middlewareApi[f[1]].sync

\* h comes after f in the run: later in f's group, or in a later group
After(f, h) == (h[1] = f[1] /\ h[2] > f[2]) \/ h[1] > f[1]

\* C3 (as claimed): when a function of a sync group finalizes the response, no later
\* function of that group and no function of a later group is invoked in that run.
C3_SyncFinalizeStops ==
    \A f, h \in DOMAIN fst :
        (finalizedBy = f /\ IsSync(f) /\ After(f, h)) => calls[h] = 0

\* C4: a function of the group after a concurrent group is invoked only when every
\* function of the concurrent group was started and has completed; and when #midCall
\* waits for a concurrent group, every function of it was started.
C4_ConcurrentJoin ==
    /\ \A f, h \in DOMAIN fst :
          (calls[h] > 0 /\ h[1] = f[1] + 1 /\ ~IsSync(f)) => (calls[f] = 1 /\ fst[f] = "done")
    /\ mpc.st = "await" => \A f \in DOMAIN fst : f[1] = mpc.g => calls[f] = 1

\* C4 witness: a concurrent group of two functions that both suspended, and the first
\* function of the following group invoked
C4_Witness ==
    /\ Len(middlewareApi) = 2
    /\ ~middlewareApi[1].sync /\ middlewareApi[1].n >= 2
    /\ nSusp = 2
    /\ mpc.g = 2 /\ calls[<<2, 1>>] = 1

\* C5 (as claimed): once the response is finalized, no middleware function and no route
\* handler is invoked for the request.
C5_NoCallAfterFinalize ==
    [][finished => (calls' = calls /\ handlerCalls' = handlerCalls)]_vars

\* C5 (amended): once the response is finalized, the route handler is not invoked, and
\* a middleware function is invoked only as one of the remaining functions of a
\* concurrent group one of whose functions finalized the response while the group was
\* being started.
C5_NoCallAfterFinalizeButGroup ==
    [][finished =>
          /\ handlerCalls' = handlerCalls
          /\ DOMAIN calls' = DOMAIN calls
          /\ \A f \in DOMAIN calls :
                calls'[f] # calls[f] =>
                    /\ ~IsSync(f)
                    /\ finalizedBy[1] = f[1]
                    /\ finalizedBy[2] < f[2]]_vars

\* C5 witness: a middleware function finalized the response, the listener is through,
\* the handler was not invoked and some middleware function never was
C5_Witness ==
    /\ lpc = "done"
    /\ finished /\ finalizedBy[1] >= 1
    /\ handlerCalls = 0
    /\ \E f \in DOMAIN calls : calls[f] = 0

\* C6: groups run in registration order: a function is invoked only when every function
\* of every earlier group has been; no function is invoked twice; and when #midCall
\* returns without a middleware function having finalized the response, every function
\* of every group was invoked once.
C6_GroupOrder ==
    /\ \A f, h \in DOMAIN fst : (calls[h] > 0 /\ f[1] < h[1]) => calls[f] > 0
    /\ \A f \in DOMAIN fst : calls[f] <= 1
    /\ (mpc.st = "returned" /\ finalizedBy[1] = 0) => \A f \in DOMAIN fst : calls[f] = 1

\* C6 witness: two groups, a sync one and a concurrent one, of two functions or more,
\* all invoked, nothing finalized, #midCall returned
C6_Witness ==
    /\ mpc.st = "returned" /\ ~finished
    /\ Len(middlewareApi) = 2
    /\ middlewareApi[1].sync # middlewareApi[2].sync
    /\ \A g \in 1..2 : middlewareApi[g].n >= 2
    /\ \A f \in DOMAIN fst : calls[f] = 1

\* C7 (as claimed): in a sync group function i+1 is invoked only when function i has
\* completed, and not at all when function i finalized the response.
C7_SyncOneAtATime ==
    \A f, h \in DOMAIN fst :
        (IsSync(f) /\ h[1] = f[1] /\ h[2] = f[2] + 1 /\ calls[h] > 0) =>
            (fst[f] = "done" /\ finalizedBy # f)

\* C8 (as claimed): the route handler is invoked only when #midCall has returned and no
\* middleware function of the request is still pending.
C8_HandlerAfterMiddleware ==
    [][handlerCalls' # handlerCalls =>
          /\ Len(middlewareApi) > 0 => mpc.st = "returned"
          /\ \A f \in DOMAIN fst : fst[f] # "pending"]_vars

(***************************************************************************)
(* WebSocket claims                                                        *)
(***************************************************************************)
\* printable text: the ASCII characters from the space to the tilde
IsPrintable(data) == \A i \in 1..Len(data) : 32 <= data[i] /\ data[i] <= 126

\* the exchange went as far as it goes: encode threw, or the 'data' handler ran
WsDone == wsPc \in {"encodeThrew", "message", "dataThrew"}

\* the 'data' handler called the message callback with the payload, byte for byte
RoundTripped ==
    /\ wsPc = "message"
    /\ ~socket.message.null
    /\ Len(socket.message.bytes) = Len(wsData)
    /\ \A i \in 1..Len(wsData) : socket.message.bytes[i] = wsData[i]

\* C9 (as claimed): for every printable-text payload, encoding it, masking the frame as
\* a client does and decoding the masked frame yields the payload byte for byte.
C9_RoundTrip ==
    (IsPrintable(wsData) /\ WsDone) => RoundTripped

\* C9 (amended): the same for every printable-text payload of at most 65535 bytes.
C9_RoundTripUpTo65535 ==
    (IsPrintable(wsData) /\ Len(wsData) <= 65535 /\ WsDone) => RoundTripped

\* C9 witness: a payload of 1000 printable bytes went through a mask that changes
\* every byte position and arrived
C9_Witness ==
    /\ IsPrintable(wsData) /\ Len(wsData) = 1000
    /\ \A k \in 1..4 : wsMask[k] # 0
    /\ RoundTripped

\* C10: every frame encode returns starts with 0x81 and has the mask bit clear; with the
\* payload the UTF-8 bytes of the data as text, a payload of less than 126 bytes gives
\* [0x81, byteLength] and the payload, one of 126 to 65535 bytes gives [0x81, 126, hi, lo]
\* and the payload with hi * 256 + lo = byteLength; encode returns no frame for a payload
\* of more bytes than that.
C10_FrameLayout ==
    LET payload    == Utf8Bytes(BufferToString(wsData))
        byteLength == Len(payload)
        header     == IF byteLength < 126 THEN 2 ELSE 4
    IN  /\ wsPc \in {"encoded", "sent", "message", "dataThrew"} =>
              /\ wsFrame[1] = 129
              /\ wsFrame[2] < 128
              /\ byteLength <= 65535
              /\ Len(wsFrame) = header + byteLength
              /\ byteLength < 126 => wsFrame[2] = byteLength
              /\ byteLength >= 126 =>
                    /\ wsFrame[2] = 126
                    /\ wsFrame[3] \in 0..255 /\ wsFrame[4] \in 0..255
                    /\ wsFrame[3] * 256 + wsFrame[4] = byteLength
              /\ \A i \in 1..byteLength : wsFrame[header + i] = payload[i]
        /\ wsPc = "encodeThrew" => byteLength > 65535

\* C10 witness: a frame for a payload of 126 bytes, the first length with the 4-byte header
C10_Witness ==
    /\ wsPc = "encoded"
    /\ Len(wsData) = 126
    /\ Len(wsFrame) = 130
    /\ wsFrame[2] = 126 /\ wsFrame[3] = 0 /\ wsFrame[4] = 126

(***************************************************************************)
(* Claims about the 'data' handler and the decoder: wsWire is the chunk    *)
(* the handler ran for when wsPc is "message" or "dataThrew"               *)
(***************************************************************************)
DataHandled == wsPc \in {"message", "dataThrew"}

Fin(b)      == b[1] \div 128
OpCode(b)   == b[1] % 16
MaskBit(b)  == (b[2] \div 128) % 2
LenCode(b)  == b[2] % 128

\* C11: a frame whose opcode is not text, whose mask bit is unset or whose length code
\* is 127 leaves socket.message null, and the decoding raises no error.
C11_Ignored ==
    (/\ DataHandled
     /\ Len(wsWire) >= 2
     /\ OpCode(wsWire) # 1 \/ MaskBit(wsWire) = 0 \/ LenCode(wsWire) = 127)
        => (wsPc = "message" /\ socket.message.null)

\* C11 witness: a text frame with the mask bit unset went through the handler
C11_Witness ==
    /\ wsPc = "message"
    /\ wsWire = Chunk(129, 1, <<65>>)
    /\ socket.message.null

\* C12 (as claimed): whatever the chunk, the 'data' handler raises no error.
C12_NeverRaises == wsPc # "dataThrew"

\* where the masking key starts, the payload length and where the payload starts, for
\* a frame with length code 0..126
KeyAt(b)      == IF LenCode(b) = 126 THEN 4 ELSE 2
DeclaredLen(b) == IF LenCode(b) = 126 THEN b[3] * 256 + b[4] ELSE LenCode(b)
IsWholeTextFrame(b) ==
    /\ Len(b) >= 2
    /\ OpCode(b) = 1 /\ MaskBit(b) = 1 /\ LenCode(b) <= 126
    /\ Len(b) >= KeyAt(b) + 4
    /\ Len(b) >= KeyAt(b) + 4 + DeclaredLen(b)

\* C13: for a masked text frame with length code 0..125, or 126 and a 16-bit length,
\* socket.message has exactly payloadLength bytes, and byte i of it is payload byte i
\* of the frame XOR byte (i mod 4) of the 4 bytes that follow the length field.
C13_Unmasked ==
    (DataHandled /\ IsWholeTextFrame(wsWire)) =>
        /\ wsPc = "message"
        /\ ~socket.message.null
        /\ Len(socket.message.bytes) = DeclaredLen(wsWire)
        /\ \A i \in 0..(DeclaredLen(wsWire) - 1) :
              socket.message.bytes[i + 1] =
                  BitXor(wsWire[KeyAt(wsWire) + 4 + i + 1], wsWire[KeyAt(wsWire) + (i % 4) + 1])

\* C13 witness: the frame with the 16-bit length, of 6 bytes, decoded
C13_Witness ==
    /\ wsPc = "message"
    /\ IsWholeTextFrame(wsWire) /\ LenCode(wsWire) = 126
    /\ Len(socket.message.bytes) = 6

\* C14 (as claimed): for a text frame with FIN = 0 or a continuation frame the message
\* callback gets no payload.
C14_FragmentIgnored ==
    (/\ wsPc = "message"
     /\ Len(wsWire) >= 2
     /\ OpCode(wsWire) = 0 \/ (OpCode(wsWire) = 1 /\ Fin(wsWire) = 0))
        => socket.message.null

(***************************************************************************)
(* Claims about the events of a connection                                 *)
(***************************************************************************)
\* C15: what each callback sees when it is dispatched: an error callback message and
\* hadError null, a close callback error and message null, a message or open callback
\* error and hadError null.
C15_FieldsReset ==
    \A i \in 1..Len(wsLog) :
        /\ wsLog[i].cb = "error" => (~wsLog[i].hasMessage /\ wsLog[i].hadError = "null")
        /\ wsLog[i].cb = "close" => (~wsLog[i].hasMessage /\ wsLog[i].error = "null")
        /\ wsLog[i].cb \in {"message", "open"} =>
              (wsLog[i].error = "null" /\ wsLog[i].hadError = "null")

\* C15 witness: a message callback that got a payload, then an error callback, then a
\* close callback
C15_Witness ==
    /\ Len(wsLog) >= 4
    /\ \E i \in 2..(Len(wsLog) - 2) :
          /\ wsLog[i].cb = "message" /\ wsLog[i].hasMessage
          /\ wsLog[i + 1].cb = "error"
          /\ wsLog[i + 2].cb = "close" /\ wsLog[i + 2].hadError = "true"

\* C16 (as claimed): whenever the message callback is dispatched, socket.message is not
\* null.
C16_MessageNonNull ==
    \A i \in 1..Len(wsLog) : wsLog[i].cb = "message" => wsLog[i].hasMessage

\* C17: the 101 response comes first and once; when there is an open callback it is
\* dispatched right after the response, once, before every other callback.
C17_OpenFirst ==
    /\ conn.wrote101 => (Len(wsLog) >= 1 /\ wsLog[1].cb = "write101")
    /\ \A i \in 1..Len(wsLog) : wsLog[i].cb = "write101" => i = 1
    /\ \A i \in 1..Len(wsLog) : wsLog[i].cb = "open" => i = 2
    /\ (conn.wrote101 /\ "open" \in wsOn) => (Len(wsLog) >= 2 /\ wsLog[2].cb = "open")
    /\ Len(wsLog) >= 1 => wsLog[1].cb = "write101"

\* C17 witness: response, open, message and close, in that order
C17_Witness ==
    /\ Len(wsLog) = 4
    /\ wsLog[1].cb = "write101" /\ wsLog[2].cb = "open"
    /\ wsLog[3].cb = "message" /\ wsLog[4].cb = "close"

\* C18: with onlyWss, the socket of an upgrade request on an unencrypted connection is
\* destroyed: no response is written, send and encode are not attached, no callback is
\* dispatched.
C18_StoppedSocket ==
    (onlyWss /\ conn.st # "none" /\ ~conn.encrypted) =>
        /\ conn.st \in {"stopped", "closed"}
        /\ ~conn.wrote101
        /\ ~conn.attached
        /\ conn.on = {}
        /\ wsLog = <<>>

\* C18 witness: all four callbacks configured, the unencrypted request stopped, the
\* socket closed, nothing dispatched
C18_Witness ==
    /\ onlyWss /\ ~conn.encrypted
    /\ wsOn = WsEvents
    /\ conn.st = "closed"
    /\ wsLog = <<>>

(***************************************************************************)
(* socket.send claims (SpecSend)                                           *)
(***************************************************************************)
\* the writes of all sockets
Writes == UNION { { wsOut[k][j] : j \in 1..Len(wsOut[k]) } : k \in Sockets }

\* C28: send(encode(d), true) writes the bytes send(d) writes, on whatever sockets the
\* two are called, and send(x, true) writes x as it is, so that the frame of one
\* socket.encode call serves any number of sockets.
C28_SendEncoded ==
    /\ \A v, w \in Writes :
          (v.x = "frame" /\ v.encoded /\ w.x = "data" /\ ~w.encoded) => v.bytes = w.bytes
    /\ \A w \in Writes : w.encoded => w.bytes = SendArg(w.x)

\* one socket got the frame of socket.encode, the other the payload: both wrote
C28_Witness ==
    /\ Len(wsData) = 126
    /\ \E v \in Writes : v.x = "frame" /\ v.encoded
    /\ \E w \in Writes : w.x = "data" /\ ~w.encoded
    /\ \E k \in Sockets : wsOut[k] # <<>> /\ wsOut[k][1].x = "frame"
    /\ \E k \in Sockets : wsOut[k] # <<>> /\ wsOut[k][1].x = "data"

(***************************************************************************)
(* File serving claims                                                     *)
(***************************************************************************)
\* the directory d names the working directory or a directory above it
AtOrAboveCwd(d) ==
    /\ d # NotAString
    /\ LET parts == PathResolve(IF IsAbsolute(d) THEN d ELSE Cwd \o <<"/">> \o d)
           here  == PathResolve(Cwd)
       IN  Len(parts) <= Len(here) /\ parts = SubSeq(here, 1, Len(parts))

\* C27 (as claimed): a files() call with the working directory or an ancestor of it as
\* dir raises an error and leaves #dir, #index, #indexAbsolute, #notFound and
\* #cacheEnabled as they were.
C27_FilesRejectsCwd ==
    [][(filesCall'.n # filesCall.n /\ AtOrAboveCwd(filesCall'.dir))
          => /\ filesCall'.threw
             /\ UNCHANGED <<dir, index, indexAbsolute, notFound, cacheEnabled>>]_vars

(***************************************************************************)
(* Listener claims (SpecFiles)                                             *)
(***************************************************************************)
InFlight == { r \in Reqs : rq[r].pc # "idle" }

\* the Content-Type of the request is present and not accepted
BadType(q) == q.contentType # "" /\ q.contentType \notin (types \cup options.types)

\* the Content-Length of the request is a number above the configured maximum
TooBig(q) ==
    /\ options.maxBodySize # NoMax
    /\ q.contentLength # <<>>
    /\ ParseInt(q.contentLength) # NaN
    /\ ParseInt(q.contentLength) > options.maxBodySize

\* nothing but the checks of the listener happened for the request
Untouched(q) ==
    /\ q.reads = <<>> /\ ~q.resolved /\ q.fileMid = 0 /\ q.apiMid = 0 /\ q.handled = 0

\* C21: a request with a Content-Type that is not accepted, or with a Content-Length
\* above options.maxBodySize, is destroyed: no response is written, no file is read,
\* no route is looked up, no middleware function and no handler is called.
C21_Rejected ==
    \A r \in InFlight :
        (BadType(rq[r]) \/ TooBig(rq[r])) =>
            /\ rq[r].destroyed
            /\ ~rq[r].finished /\ rq[r].ends = 0 /\ rq[r].body = NoBody
            /\ Untouched(rq[r])

\* a request with an accepted Content-Type and a Content-Length of 20 above the maximum
\* of 10 was destroyed on a server that serves files
C21_Witness ==
    /\ rq[1].pc = "done" /\ rq[1].destroyed
    /\ rq[1].contentType = TextPlain /\ ~BadType(rq[1]) /\ TooBig(rq[1])
    /\ dir # NoPath /\ hist # <<>>

\* C22: with onlyHttps, a request on an unencrypted connection that passes the two
\* checks gets one response, a 301 with Location https://<host><req.url>, and nothing
\* else happens for it.
C22_Redirected ==
    \A r \in InFlight :
        (options.onlyHttps /\ ~rq[r].encrypted /\ ~BadType(rq[r]) /\ ~TooBig(rq[r])) =>
            /\ rq[r].ends = 1 /\ rq[r].sentStatus = 301
            /\ rq[r].location = <<rq[r].host, rq[r].rawUrl>>
            /\ ~rq[r].destroyed
            /\ Untouched(rq[r])

\* a request for /api/x?q was redirected on a server with a route for it
C22_Witness ==
    /\ rq[1].pc = "done" /\ rq[1].sentStatus = 301 /\ rq[1].rawUrl = uApiQ
    /\ options.onlyHttps /\ ~rq[1].encrypted
    /\ options.maxBodySize # NoMax
    /\ hist # <<>> /\ dir # NoPath

\* the request went past the checks and the redirect of the listener
Admitted(q) ==
    ~BadType(q) /\ ~TooBig(q) /\ ~(options.onlyHttps /\ ~q.encrypted)

\* C23: on a server with file serving and the prefix pattern, a request whose path
\* matches the pattern goes to the routes (the check of the method, then #getRoute) and
\* no file is read or served for it; a request whose path does not match is answered
\* by file serving or the not-found page, and no route is looked up, no API middleware
\* and no handler is called for it.
C23_OneBranch ==
    \A r \in InFlight :
        (prefix /\ dir # NoPath /\ Admitted(rq[r])) =>
            IF PrefixTest(rq[r].url)
            THEN /\ rq[r].reads = <<>> /\ rq[r].fileMid = 0 /\ ~rq[r].byFile
                 /\ rq[r].file = NoPath
                 /\ rq[r].resolved \/ rq[r].method \notin methods
            ELSE /\ ~rq[r].resolved /\ rq[r].apiMid = 0 /\ rq[r].handled = 0
                 /\ rq[r].file # NoPath \/ rq[r].reads # <<>>
                 /\ rq[r].pc = "done" =>
                       \/ rq[r].byFile
                       \/ rq[r].body = MidBody
                       \/ rq[r].body = NotFoundText /\ rq[r].sentStatus = 404

\* a GET for /g.j, no file, was answered with the not-found page on a server that has a
\* GET route
C23_Witness ==
    /\ prefix /\ dir # NoPath /\ "GET" \in methods
    /\ rq[1].pc = "done" /\ rq[1].url = uG /\ Admitted(rq[1])
    /\ rq[1].byFile /\ rq[1].sentStatus = 404 /\ rq[1].body = "nf"
    /\ Len(rq[1].reads) = 2

\* C24 (as claimed): file middleware is invoked only while a file whose content was
\* read is being served, API middleware only after #getRoute returned a handler, and
\* no request has functions of both arrays invoked.
C24_PipelinesSeparate ==
    \A r \in InFlight :
        /\ rq[r].fileMid > 0 =>
              (rq[r].file # NoPath /\ (rq[r].fromCache \/ rq[r].content # ""))
        /\ rq[r].apiMid > 0 => (rq[r].resolved /\ rq[r].handler # NoHandler)
        /\ ~(rq[r].fileMid > 0 /\ rq[r].apiMid > 0)


(***************************************************************************)
(* The file cache                                                          *)
(***************************************************************************)
\* the files request r has read since it arrived
ReadBy(r) == { rq[r].reads[i] : i \in 1..Len(rq[r].reads) }

\* the files request r reads in this step
ReadsNow(r) ==
    { rq'[r].reads[i] : i \in (Len(rq[r].reads) + 1)..Len(rq'[r].reads) }

\* a request for a file that was already served from the enabled cache, with no
\* cacheClear, cacheRefresh or cacheDisable since that first serve, is answered with
\* the content cached at that first serve and has not read the file
LaterServesFromCache ==
    \A r \in Reqs :
        (rq[r].byFile /\ rq[r].expect # "") =>
            /\ rq[r].body = rq[r].expect
            /\ rq[r].file \notin ReadBy(r)

\* no step reads a file that the enabled cache holds
NoReadWhileCached ==
    \A r \in Reqs : \A f \in ReadsNow(r) : ~(cacheEnabled /\ f \in DOMAIN cache)

\* C25: with the cache enabled, under any interleaving of requests, every request for a
\* file after its first successful serve is answered with the content cached at that
\* first serve and without a read, until cacheClear, cacheRefresh or cacheDisable
\* intervenes; a file is never read while it is cached
C25_ServedFromCache == []LaterServesFromCache /\ [][NoReadWhileCached]_vars

\* a later request for public/f.j was answered from the cache with the content of the
\* first serve although the file has changed since, while the other request is waiting
\* for the file middleware
C25_Witness ==
    \E r \in Reqs :
        /\ rq[r].pc = "done"
        /\ rq[r].byFile
        /\ rq[r].file = fF
        /\ rq[r].expect # ""
        /\ rq[r].body = rq[r].expect
        /\ rq[r].reads = <<>>
        /\ fF \in DOMAIN disk
        /\ disk[fF] # rq[r].body
        /\ \E o \in Reqs \ {r} : rq[o].pc = "fileMid"

\* C26: cacheRefresh never adds a key: the keys after it are a subset of the keys
\* before, every remaining key holds the file's current content, exactly the keys
\* whose file can no longer be read are removed, and a file that was not cached stays
\* uncached
C26_RefreshOnlyShrinks ==
    [][CacheRefresh =>
          /\ DOMAIN cache' \subseteq DOMAIN cache
          /\ \A f \in DOMAIN cache' : f \in DOMAIN disk /\ cache'[f] = disk[f]
          /\ DOMAIN cache \ DOMAIN cache' = { f \in DOMAIN cache : f \notin DOMAIN disk }
          /\ \A f \in DOMAIN disk : f \notin DOMAIN cache => f \notin DOMAIN cache']_vars

\* the last cache call was a refresh that found two keys, removed the key of the
\* deleted public/f.j and kept the key of the not-found page
C26_Witness ==
    /\ cacheCall.op = "refresh"
    /\ DOMAIN cacheCall.before = {fF, fN}
    /\ fF \notin DOMAIN disk
    /\ DOMAIN cache = {fN}
    /\ cache[fN] = disk[fN]

(***************************************************************************)
(* The documented example                                                  *)
(***************************************************************************)
\* the text is a JSON object with a name that is a string of at least one character
CarriesName(raw) ==
    LET p == JsonParse(raw)
    IN  /\ p.ok
        /\ p.v.t = "object"
        /\ Get(p.v, tName).t = "string"
        /\ Get(p.v, tName).s # <<>>

\* request q is a POST /api/soups with a JSON body that carries a name
IsPostOfSoup(q) ==
    /\ q.method = "POST"
    /\ q.url = uSoups
    /\ q.contentType = ApplicationJson
    /\ CarriesName(q.raw)

\* the answer to a POST of a soup: 201 and the stored object with its identifier
PostAnswered(q) ==
    /\ q.sentStatus = 201
    /\ q.assigned \in 0..(Len(soups) - 1)
    /\ q.out = JsonStringify(soups[q.assigned + 1])
    /\ Get(soups[q.assigned + 1], tId) = Num(q.assigned)
    /\ Get(soups[q.assigned + 1], tName) = Get(JsonParse(q.raw).v, tName)

\* the id of the URL of a GET /api/soups/<id> is in the range of the ids given out
\* when the handler ran
IdsInRange(q) ==
    { k \in 0..(q.len - 1) : q.method = "GET" /\ q.url = uSoups \o <<"/">> \o Decimal(k) }

\* the id of the URL of a GET /api/soups/<id> is a number out of that range
IdOutOfRange(q) ==
    /\ q.method = "GET"
    /\ Len(q.url) > Len(uSoups) + 1
    /\ SubSeq(q.url, 1, Len(uSoups) + 1) = uSoups \o <<"/">>
    /\ LET num == ToNumber(SubSeq(q.url, Len(uSoups) + 2, Len(q.url)))
       IN  ~num.nan /\ (num.n < 0 \/ num.n >= q.len)

\* C29: with midApiReqBodyJson, midApiResDefaults and midApiResEnd registered as API
\* middleware and the documented handlers, a POST /api/soups with a JSON body carrying
\* a name is answered with 201 and the stored object with its identifier, a GET
\* /api/soups/<that id> with the same object, and a GET /api/soups/<id out of range>
\* with 404
C29_SoupsAnswers ==
    \A r \in Reqs :
        LET q == sq[r]
        IN  q.pc \in {"done", "failed"} =>
                /\ IsPostOfSoup(q) => PostAnswered(q)
                /\ \A k \in IdsInRange(q) : q.out = JsonStringify(soups[k + 1])
                /\ IdOutOfRange(q) => q.sentStatus = 404

(***************************************************************************)
(* API routing without a handler                                           *)
(***************************************************************************)
\* the method of the request has no route at all, or method and path resolve to no
\* handler
Unrouted(q) ==
    \/ q.method \notin methods
    \/ GetRoute(routes, urlVar, q.method, q.url).handler = NoHandler

\* the response of the request is the 404 of #handleNotFoundApi
Answered404(q) ==
    q.pc = "done" /\ q.finished /\ q.sentStatus = 404 /\ q.body = NotFoundText

\* C31: a request that reaches API routing and whose method has no route, or whose
\* method and path resolve to no handler, is answered with a 404, and no API middleware
\* function and no handler is invoked for it
C31_UnroutedIs404 ==
    \A r \in InFlight :
        (rq[r].routed /\ Unrouted(rq[r])) =>
            /\ Answered404(rq[r])
            /\ rq[r].apiMid = 0
            /\ rq[r].handled = 0

(***************************************************************************)
(* A body that is no JSON                                                  *)
(***************************************************************************)
\* midApiReqBodyJson has received the whole body of request q, and the body does not
\* parse
BadJsonReceived(q) ==
    /\ q.pc # "idle"
    /\ q.contentType = ApplicationJson
    /\ q.handler # NoHandler
    /\ ~q.bodyPending
    /\ ~JsonParse(q.raw).ok

\* C32: when the body midApiReqBodyJson receives is not valid JSON, req.body is set to
\* an empty object, the middleware completes, the listener goes on to the handler as
\* for a valid body (which answers as it does for the body {}), and nothing fails
C32_BadJsonIsEmptyObject ==
    \A r \in Reqs :
        BadJsonReceived(sq[r]) =>
            /\ sq[r].reqBody = Obj(<<>>)
            /\ sq[r].pc = "done"
            /\ sq[r].len >= 0
            /\ sq[r].sentStatus = 400 /\ sq[r].out = <<>>

\* with the functions registered by midApiAsync, a POST whose body breaks off after
\* {"name": was handed to the handler with req.body = {} and answered 400
C32_Witness ==
    \E r \in Reqs :
        /\ BadJsonReceived(sq[r])
        /\ sq[r].raw = jBroken
        /\ ~middlewareApi[1].sync
        /\ sq[r].reqBody = Obj(<<>>)
        /\ sq[r].len >= 0
        /\ sq[r].sentStatus = 400

(***************************************************************************)
(* The built-in body middleware on a streamed body                         *)
(***************************************************************************)
\* the one group of API middleware holds the built-in function of that name
Registered(name) ==
    /\ Len(midNames) = 1
    /\ \E i \in 1..Len(midNames[1]) : midNames[1][i].fn = name

\* the listener has handed the request in the slot to #midCall
ReachedMid(q) == q.pc # "idle" /\ q.handler # NoHandler

\* C33: for a request whose content type is none of the internal body middleware,
\* midApiReqBodyOther completes (no rejection, nothing thrown) and, once the whole body
\* has arrived, req.body holds exactly the bytes that arrived, in their order, for every
\* split into chunks and every Content-Length; and when midApiReqBodyJson is registered
\* too, exactly one of the two reads the body of a request
C33_OtherHoldsBody ==
    (ReachedMid(bq) /\ Registered(BodyOther)) =>
        /\ bq.contentType \notin types =>
              /\ ~bq.rejected /\ ~bq.crashed
              /\ bq.on = <<BodyOther>>
              /\ (bq.chunks = <<>> /\ bq.ended) => bq.reqBody = BufferBody(bq.sent)
        /\ Registered(BodyJson) => Len(bq.on) = 1

\* more bytes than options.maxBodySize have been streamed to midApiReqBodyJson
Overflow(q) ==
    /\ ReachedMid(q)
    /\ options.maxBodySize # NoMax
    /\ \E i \in 1..Len(q.on) : q.on[i] = BodyJson
    /\ Len(q.sent) > options.maxBodySize

TerminalActions(q) ==
    (IF q.destroyed THEN 1 ELSE 0)
    + (IF q.finished /\ q.body \notin {MidBody, HandlerBody} THEN 1 ELSE 0)
    + q.late
    + q.handled

\* C35: for every request the listener performs at most one terminal action (destroy,
\* 301 redirect, file content, not-found response or handler invocation) and never
\* calls res.end on a response that is already finished, also when a file middleware
\* function fails after the response was finished
C35_OneTerminalAction ==
    \A r \in InFlight :
        /\ TerminalActions(rq[r]) <= 1
        /\ rq[r].late = 0
====
